---- MODULE Spec2Model ----
(***************************************************************************)
(* The instance store of graphpipeline (datasource/datasource.py): the     *)
(* data source directory, the download() life cycle of a                   *)
(* DataSourceInstance (process_<uuid> -> <uuid> | error_<uuid>), the       *)
(* selection of the latest local instance and the pull of a remote one.    *)
(***************************************************************************)
EXTENDS Integers, Sequences, FiniteSets, TLC

\* ------------------------------------------------------------------ bounds

\* Number of download() calls; the call number stands for the uuid4 of its instance.
MaxCalls == 2

\* datetime.now() takes the values 0..MaxTime.
MaxTime == 2

\* Sub-second steps per second: time t is second t \div SubSec, fraction t % SubSec.
SubSec == 2

\* Number of pull_latest_from_remote calls.
MaxPulls == 1

\* --------------------------------------------------------- directory names

\* A name of the data source directory: a prefix and the uuid it carries.
\* "process_" + uuid, "error_" + uuid, uuid alone (prefix ""), or a hidden name.
Name(prefix, stem) == [prefix |-> prefix, stem |-> stem]

\* One process_ directory for all instances.
SharedProcessDir(uuid) == Name("process_", 0)

ProcessInstanceDir(uuid) == Name("process_", uuid)

InstanceDir(uuid) == Name("", uuid)

ErrorInstancePath(uuid) == Name("error_", uuid)

\* A hidden entry such as .DS_Store.
HiddenName == Name(".", 0)

\* The uuids of the instances a remote server offers.
RemoteUuids == {101, 102}

\* ------------------------------------------------------ download arguments

\* A value of a download argument: a scalar or a list (set is what setify_dict makes).
ScalarVal(x) == [kind |-> "scalar", seq |-> <<x>>, set |-> {}]

ListVal(s) == [kind |-> "list", seq |-> s, set |-> {}]

SetVal(S) == [kind |-> "set", seq |-> <<>>, set |-> S]

Range(s) == {s[i] : i \in DOMAIN s}

NoArgs == [k \in {} |-> ScalarVal("")]

TaxidsAB == [k \in {"taxids"} |-> ListVal(<<"9606", "10090">>)]

TaxidsBA == [k \in {"taxids"} |-> ListVal(<<"10090", "9606">>)]

TaxidsScalar == [k \in {"taxids"} |-> ScalarVal("9606")]

\* The download_arguments a caller asks for.
ArgChoices == {NoArgs, TaxidsAB, TaxidsBA, TaxidsScalar}

\* The download_arguments download() is called with.
DownloadArgChoices == {NoArgs, TaxidsAB, TaxidsBA}

\* A setify_dict that leaves the lists as they are.
SetifyNothing(d) == d

\* set(v) for a list, v itself otherwise.
setify_dict(d) ==
    [k \in DOMAIN d |-> IF d[k].kind = "list" THEN SetVal(Range(d[k].seq)) ELSE d[k]]

\* json.dump followed by json.load of the arguments: lists stay arrays, scalars stay scalars.
JsonArgs(d) == [k \in DOMAIN d |-> IF d[k].kind = "list" THEN ListVal(d[k].seq) ELSE ScalarVal(d[k].seq[1])]

\* -------------------------------------------------------------- timestamps

\* str(datetime): "YYYY-MM-DD HH:MM:SS" and, only when the microsecond is not 0, ".ffffff".
StrDatetime(t) == [sec |-> t \div SubSec, frac |-> t % SubSec]

\* DataSourceInstance.read: a string holding '-', ':' and '.' is parsed to a datetime,
\* any other string is kept as it is.
ReadProperty(s) ==
    IF s.frac # 0
    THEN [kind |-> "datetime", sec |-> s.sec, frac |-> s.frac]
    ELSE [kind |-> "str", sec |-> s.sec, frac |-> 0]

\* from_dict keeps the JSON string.
RawProperty(s) == [kind |-> "str", sec |-> s.sec, frac |-> s.frac]

\* a > b between two values of the same type (datetime order; string order of the
\* fixed-width rendering, where a rendering is a prefix of the one with a fraction).
Greater(a, b) == a.sec * SubSec + a.frac > b.sec * SubSec + b.frac

\* Python raises TypeError for str > datetime.
Comparable(a, b) == a.kind = b.kind

\* ------------------------------------------------------------- file system

\* The keys of the dictionary to_dict() builds.
ToDictKeys == {"datasource", "download_arguments", "uuid", "instance_created", "version"}

\* metadata.json as written by store(): to_dict() dumped with default=str. The version
\* of an instance nobody gave one is None (null); finished is set by wrap_up on the
\* object but is not among the keys of to_dict().
Manifest(uuid, args, created) ==
    [k \in ToDictKeys |->
        IF k = "uuid" THEN uuid
        ELSE IF k = "download_arguments" THEN JsonArgs(args)
        ELSE IF k = "instance_created" THEN StrDatetime(created)
        ELSE IF k = "version" THEN "None" ELSE "datasource"]

\* An entry of the data source directory: meta is <<>> or <<manifest>>.
Entry(kind, meta, payload) == [kind |-> kind, meta |-> meta, payload |-> payload]

EmptyDir == Entry("dir", <<>>, FALSE)

Put(f, n, e) == [x \in DOMAIN f \cup {n} |-> IF x = n THEN e ELSE f[x]]

Remove(f, n) == [x \in DOMAIN f \ {n} |-> f[x]]

IsEmptyDir(e) == e.kind = "dir" /\ e.meta = <<>> /\ ~e.payload

\* os.rename(src, dst) of a directory: fails when src is missing, when dst is a file
\* or a directory that is not empty; replaces an empty directory.
RenameOk(f, src, dst) ==
    /\ src \in DOMAIN f
    /\ dst \in DOMAIN f => IsEmptyDir(f[dst])

\* A rename done as a copy: the source stays.
RenameByCopy(f, src, dst) == Put(f, dst, f[src])

\* A rename that leaves the contents behind.
RenameEmptied(f, src, dst) == Put(Remove(f, src), dst, EmptyDir)

Rename(f, src, dst) == Put(Remove(f, src), dst, f[src])

VARIABLES
    fs,      \* the data source directory: name -> entry
    calls,   \* the download() calls, call i holding the instance with uuid i
    clock,   \* datetime.now()
    pull,    \* the pull_latest_from_remote call in progress
    client,  \* the last call a client made on the store directly, and its outcome
    fetch,   \* the download_file / _read_text_file_ftp call in progress, and its outcome
    mirror,  \* the download_directory_from_ftp call in progress, the two trees, the outcome
    remote,  \* the data source directory on the remote server, the last listing or push of it
    version, \* the last DataSourceVersion made or compared, and what came of it
    lookup,  \* the tree of one Ready instance, the last file or directory looked up in it
    avail,   \* the check_remote_files call
    pset,    \* the ParserSet and the writes it has made to the graph
    reader   \* a latest_local_instance call of another task

vars == <<fs, calls, clock, pull, client, fetch, mirror, remote, version, lookup, avail, pset, reader>>

\* The instance store, the downloader, the remote catalog, the versions and the lookups.
core == <<fs, calls, clock, pull, client, fetch, mirror, remote, version, lookup>>

\* The availability check, the parser set and the concurrent reader.
later == <<avail, pset, reader>>

\* What the downloader's calls leave alone besides the store.
apart == <<remote, version, lookup, later>>

\* What the instance store's download and pull steps leave alone.
others == <<client, fetch, mirror, apart>>

\* ------------------------------------------------- local instance discovery

\* DataSourceInstance.read: open(<path>/metadata.json) raises when the path is a file
\* or holds no metadata.json.
Readable(e) == e.kind = "dir" /\ e.meta # <<>>

\* The instance read() builds from metadata.json: falsy properties are dropped (the
\* constructor's {} stays), date-looking strings are parsed.
ReadInstance(e) ==
    LET m == e.meta[1]
    IN [uuid |-> m.uuid,
        download_arguments |-> IF DOMAIN m.download_arguments = {} THEN NoArgs ELSE m.download_arguments,
        instance_created |-> ReadProperty(m.instance_created)]

\* The version read() leaves on the instance: a null is falsy and dropped, so the
\* constructor's None stays; a version string that does not look like a date is kept.
ReadVersion(e) == IF e.meta[1].version = "None" THEN "None" ELSE e.meta[1].version

\* A filter that lets the process_ directories through.
IsNotErrorName(n) == n.prefix # "error_" /\ n.prefix # "."

\* The name filter of instances_local.
IsLocalInstanceName(n) == n.prefix # "error_" /\ n.prefix # "process_" /\ n.prefix # "."

\* os.listdir returns the names in an order of its own.
RECURSIVE Orders(_)
Orders(S) == IF S = {} THEN {<<>>} ELSE UNION {{<<x>> \o p : p \in Orders(S \ {x})} : x \in S}

list_instances == Orders(DOMAIN fs)

\* The names instances_local yields an instance for, in listing order.
instances_local(listing) == SelectSeq(listing, IsLocalInstanceName)

\* One round of the loop of latest_local_instance / latest_remote_instance: acc is
\* [raised, latest]; inst is the next instance of the generator.
LatestStep(acc, inst, argument_check, download_arguments) ==
    IF argument_check /\ setify_dict(inst.download_arguments) # setify_dict(download_arguments)
    THEN acc
    ELSE IF acc.latest = <<>>
         THEN [acc EXCEPT !.latest = <<inst>>]
         ELSE IF ~Comparable(inst.instance_created, acc.latest[1].instance_created)
              THEN [acc EXCEPT !.raised = TRUE]
              ELSE IF Greater(inst.instance_created, acc.latest[1].instance_created)
                   THEN [acc EXCEPT !.latest = <<inst>>]
                   ELSE acc

RECURSIVE LatestLocalLoop(_, _, _, _, _)
LatestLocalLoop(f, names, acc, argument_check, download_arguments) ==
    IF acc.raised \/ names = <<>>
    THEN acc
    ELSE IF ~Readable(f[Head(names)])
         THEN [acc EXCEPT !.raised = TRUE]
         ELSE LatestLocalLoop(f, Tail(names),
                  LatestStep(acc, ReadInstance(f[Head(names)]), argument_check, download_arguments),
                  argument_check, download_arguments)

\* latest_local_instance over one listing: [raised, latest]; latest is <<>> for None
\* and is not returned when raised.
Returned(acc) == IF acc.raised THEN [raised |-> TRUE, latest |-> <<>>] ELSE acc

latest_local_instance(listing, argument_check, download_arguments) ==
    Returned(LatestLocalLoop(fs, instances_local(listing), [raised |-> FALSE, latest |-> <<>>],
                             argument_check, download_arguments))

\* ---------------------------------------------------------- remote catalog

\* The metadata.json of the instances on the remote server (written by another
\* deployment's wrap_up).
RemoteManifest(uuid) ==
    IF uuid = 101 THEN Manifest(101, TaxidsAB, SubSec + 1) ELSE Manifest(uuid, TaxidsScalar, 0)

\* DataSourceInstance.from_dict: the JSON values as they are.
FromDict(m) ==
    [uuid |-> m.uuid,
     download_arguments |-> IF DOMAIN m.download_arguments = {} THEN NoArgs ELSE m.download_arguments,
     instance_created |-> RawProperty(m.instance_created)]

RECURSIVE LatestRemoteLoop(_, _, _, _)
LatestRemoteLoop(uuids, acc, argument_check, download_arguments) ==
    IF acc.raised \/ uuids = <<>>
    THEN acc
    ELSE LatestRemoteLoop(Tail(uuids),
             LatestStep(acc, FromDict(RemoteManifest(Head(uuids))), argument_check, download_arguments),
             argument_check, download_arguments)

\* latest_remote_instance over one remote listing.
latest_remote_instance(listing, argument_check, download_arguments) ==
    Returned(LatestRemoteLoop(listing, [raised |-> FALSE, latest |-> <<>>],
                              argument_check, download_arguments))

\* The loop of latest_remote_instance over the descriptors list_remote_instances
\* has returned.
RECURSIVE LatestListedLoop(_, _, _, _)
LatestListedLoop(instances, acc, argument_check, download_arguments) ==
    IF acc.raised \/ instances = <<>>
    THEN acc
    ELSE LatestListedLoop(Tail(instances),
             LatestStep(acc, Head(instances), argument_check, download_arguments),
             argument_check, download_arguments)

latest_of_listed(instances, argument_check, download_arguments) ==
    Returned(LatestListedLoop(instances, [raised |-> FALSE, latest |-> <<>>],
                              argument_check, download_arguments))

\* The files of an instance directory on the remote server.
RemoteFiles == {"metadata.json", "payload"}

\* -------------------------------------------------------------- download()

\* prepare_download: mkdir of process_<uuid> unless it exists.
prepare_download(f, uuid) ==
    IF ProcessInstanceDir(uuid) \in DOMAIN f THEN f ELSE Put(f, ProcessInstanceDir(uuid), EmptyDir)

\* store(): open(process_<uuid>/metadata.json, 'w') needs the directory.
StoreOk(f, uuid) == ProcessInstanceDir(uuid) \in DOMAIN f /\ f[ProcessInstanceDir(uuid)].kind = "dir"

\* A store() that writes no metadata.json.
StoreNothing(f, uuid, args, created) == f

store(f, uuid, args, created) ==
    [f EXCEPT ![ProcessInstanceDir(uuid)].meta = <<Manifest(uuid, args, created)>>]

\* The exception a call carries: "None" or the step that raised it.
Call(pc, args, created, exc, orig) ==
    [pc |-> pc, download_arguments |-> args, instance_created |-> created,
     exc |-> exc, orig |-> orig]

\* download() up to and including prepare_download: a new DataSourceInstance (fresh
\* uuid, instance_created = now), then mkdir, which the operating system may refuse.
Begin(args) ==
    /\ Len(calls) < MaxCalls
    /\ \E t \in clock..MaxTime :
         /\ clock' = t
         /\ LET uuid == Len(calls) + 1
            IN \/ /\ fs' = prepare_download(fs, uuid)
                  /\ calls' = Append(calls, Call("download_function", args, t, "None", "None"))
               \/ /\ fs' = fs
                  /\ calls' = Append(calls, Call("on_error", args, t, "prepare_download", "prepare_download"))
    /\ UNCHANGED <<pull, others>>

\* RollingReleaseRemoteDataSource.download / ManyVersionsRemoteDataSource.download
Download ==
    \E args \in DownloadArgChoices : Begin(args)

\* A download_latest_if_not_exists that does not look at the local instances.
DownloadLatestAlways ==
    \E args \in DownloadArgChoices : Begin(args)

\* download_latest_if_not_exists: download only when latest_local_instance is falsy;
\* an exception of latest_local_instance propagates.
download_latest_if_not_exists ==
    \E args \in DownloadArgChoices, listing \in list_instances :
        LET found == latest_local_instance(listing, TRUE, args)
        IN /\ ~found.raised
           /\ found.latest = <<>>
           /\ Begin(args)

\* download_function: the implementing class fetches into process_<uuid>, or raises
\* with or without partial files.
DownloadFunction(i) ==
    /\ calls[i].pc = "download_function"
    /\ ProcessInstanceDir(i) \in DOMAIN fs
    /\ \/ /\ fs' = [fs EXCEPT ![ProcessInstanceDir(i)].payload = TRUE]
          /\ calls' = [calls EXCEPT ![i].pc = "store"]
       \/ /\ \E partial \in BOOLEAN : fs' = [fs EXCEPT ![ProcessInstanceDir(i)].payload = partial]
          /\ calls' = [calls EXCEPT ![i].pc = "on_error", ![i].exc = "download_function",
                                    ![i].orig = "download_function"]
    /\ UNCHANGED <<clock, pull, others>>

\* SingleVersionRemoteDataSource.download: version_downloadable(version) returns True
\* only if version == self.latest_remote_version(); when it does not, download_function
\* is passed over and wrap_up follows.
NotDownloadable(i) ==
    /\ calls[i].pc = "download_function"
    /\ calls' = [calls EXCEPT ![i].pc = "store"]
    /\ UNCHANGED <<fs, clock, pull, others>>

\* wrap_up, first half: store() writes metadata.json, or raises.
Store(i) ==
    /\ calls[i].pc = "store"
    /\ \/ /\ StoreOk(fs, i)
          /\ fs' = store(fs, i, calls[i].download_arguments, calls[i].instance_created)
          /\ calls' = [calls EXCEPT ![i].pc = "rename"]
       \/ /\ fs' = fs
          /\ calls' = [calls EXCEPT ![i].pc = "on_error", ![i].exc = "store", ![i].orig = "store"]
    /\ UNCHANGED <<clock, pull, others>>

\* wrap_up, second half: os.rename(process_instance_dir, instance_dir).
WrapUpRename(i) ==
    /\ calls[i].pc = "rename"
    /\ IF RenameOk(fs, ProcessInstanceDir(i), InstanceDir(i))
       THEN /\ fs' = Rename(fs, ProcessInstanceDir(i), InstanceDir(i))
            /\ calls' = [calls EXCEPT ![i].pc = "post_download"]
       ELSE /\ fs' = fs
            /\ calls' = [calls EXCEPT ![i].pc = "on_error", ![i].exc = "wrap_up", ![i].orig = "wrap_up"]
    /\ UNCHANGED <<clock, pull, others>>

\* An except clause that re-raises without calling on_error.
OnErrorLeaving(i) ==
    /\ calls[i].pc = "on_error"
    /\ fs' = fs
    /\ calls' = [calls EXCEPT ![i].pc = "post_download"]
    /\ UNCHANGED <<clock, pull, others>>

\* except: instance.on_error(); raise. An exception of on_error replaces the one
\* being handled.
OnError(i) ==
    /\ calls[i].pc = "on_error"
    /\ IF RenameOk(fs, ProcessInstanceDir(i), ErrorInstancePath(i))
       THEN /\ fs' = Rename(fs, ProcessInstanceDir(i), ErrorInstancePath(i))
            /\ calls' = [calls EXCEPT ![i].pc = "post_download"]
       ELSE /\ fs' = fs
            /\ calls' = [calls EXCEPT ![i].pc = "post_download", ![i].exc = "on_error"]
    /\ UNCHANGED <<clock, pull, others>>

\* finally: self.post_download(); then download() returns the instance or the
\* exception reaches the caller.
PostDownload(i) ==
    /\ calls[i].pc = "post_download"
    /\ calls' = [calls EXCEPT ![i].pc = IF calls[i].exc = "None" THEN "returned" ELSE "raised"]
    /\ UNCHANGED <<fs, clock, pull, others>>

\* The process running download() stops after prepare_download and before wrap_up
\* has renamed the directory.
Crash(i) ==
    /\ calls[i].pc \in {"download_function", "store", "rename"}
    /\ calls' = [calls EXCEPT ![i].pc = "crashed"]
    /\ UNCHANGED <<fs, clock, pull, others>>

\* ------------------------------------------------- pull_latest_from_remote

Idle(n) == [pc |-> "idle", uuid |-> 0, todo |-> {}, n |-> n]

\* pull over FTP, up to the walk: latest_remote_instance, then
\* download_directory_from_ftp makes <ds_dir>/<uuid> unless it exists.
PullFtpBegin ==
    /\ pull.pc = "idle"
    /\ pull.n < MaxPulls
    /\ \E argument_check \in BOOLEAN, args \in ArgChoices, listing \in Orders(RemoteUuids) :
         LET found == latest_remote_instance(listing, argument_check, args)
         IN IF found.raised \/ found.latest = <<>>
            THEN /\ pull' = Idle(pull.n + 1)
                 /\ fs' = fs
            ELSE LET target == InstanceDir(found.latest[1].uuid)
                 IN IF target \in DOMAIN fs /\ fs[target].kind = "file"
                    THEN /\ pull' = Idle(pull.n + 1)
                         /\ fs' = fs
                    ELSE /\ fs' = IF target \in DOMAIN fs THEN fs ELSE Put(fs, target, EmptyDir)
                         /\ pull' = [pc |-> "ftp", uuid |-> found.latest[1].uuid,
                                     todo |-> RemoteFiles, n |-> pull.n + 1]
    /\ UNCHANGED <<calls, clock, others>>

\* One file of the walk: downloaded unless it is there (overwrite is None).
PullFtpFile ==
    /\ pull.pc = "ftp"
    /\ \E file \in pull.todo :
         LET target == InstanceDir(pull.uuid)
             todo == pull.todo \ {file}
         IN /\ fs' = IF file = "metadata.json"
                     THEN IF fs[target].meta # <<>> THEN fs
                          ELSE [fs EXCEPT ![target].meta = <<RemoteManifest(pull.uuid)>>]
                     ELSE [fs EXCEPT ![target].payload = TRUE]
            /\ pull' = IF todo = {} THEN Idle(pull.n) ELSE [pull EXCEPT !.todo = todo]
    /\ UNCHANGED <<calls, clock, others>>

\* The connection or a download raises something other than FTPIOError: the
\* exception leaves download_directory_from_ftp and pull_latest_from_remote.
PullFtpRaise ==
    /\ pull.pc = "ftp"
    /\ pull' = Idle(pull.n)
    /\ UNCHANGED <<fs, calls, clock, others>>

\* pull over HTTP: the instance URL does not end with '/', so
\* download_directory_from_http writes the response into a file named <uuid>.
PullHttp ==
    /\ pull.pc = "idle"
    /\ pull.n < MaxPulls
    /\ \E argument_check \in BOOLEAN, args \in ArgChoices, listing \in Orders(RemoteUuids) :
         LET found == latest_remote_instance(listing, argument_check, args)
         IN IF found.raised \/ found.latest = <<>>
            THEN fs' = fs
            ELSE LET target == InstanceDir(found.latest[1].uuid)
                 IN IF target \in DOMAIN fs /\ fs[target].kind = "dir"
                    THEN fs' = fs
                    ELSE fs' = Put(fs, target, Entry("file", <<>>, FALSE))
    /\ pull' = Idle(pull.n + 1)
    /\ UNCHANGED <<calls, clock, others>>

\* --------------------------------- the instance methods, called by a client

\* The client holds the instance download() returned, or builds one for the uuid of
\* a download that raised.
Held(i) == calls[i].pc \in {"returned", "raised"}

\* instance.prepare_download()
ApiPrepareDownload(i) ==
    /\ Held(i)
    /\ fs' = prepare_download(fs, i)
    /\ UNCHANGED <<calls, clock, pull, others>>

\* instance.store(): raises without process_<uuid>.
ApiStore(i) ==
    /\ Held(i)
    /\ fs' = IF StoreOk(fs, i)
             THEN store(fs, i, calls[i].download_arguments, calls[i].instance_created)
             ELSE fs
    /\ UNCHANGED <<calls, clock, pull, others>>

\* instance.wrap_up(): store(), then the rename; an exception of either ends it.
ApiWrapUp(i) ==
    /\ Held(i)
    /\ fs' = IF StoreOk(fs, i)
             THEN LET stored == store(fs, i, calls[i].download_arguments, calls[i].instance_created)
                  IN IF RenameOk(stored, ProcessInstanceDir(i), InstanceDir(i))
                     THEN Rename(stored, ProcessInstanceDir(i), InstanceDir(i))
                     ELSE stored
             ELSE fs
    /\ UNCHANGED <<calls, clock, pull, others>>

\* instance.on_error()
ApiOnError(i) ==
    /\ Held(i)
    /\ fs' = IF RenameOk(fs, ProcessInstanceDir(i), ErrorInstancePath(i))
             THEN Rename(fs, ProcessInstanceDir(i), ErrorInstancePath(i))
             ELSE fs
    /\ UNCHANGED <<calls, clock, pull, others>>

\* ------------------------------------ download_file and the FTP retry loop

\* Number of download_file / _read_text_file_ftp calls.
MaxFetches == 2

\* retries = 3 in _download_file_ftp and _read_text_file_ftp.
retries == 3

\* What remote_url starts with: http://, https://, ftp:// or something else.
Schemes == {"http", "https", "ftp", "file"}

\* The status codes a server answers with.
StatusCodes == {"200", "302", "404"}

\* What one FTP attempt (connect, login, RETR) ends with: success, EOFError, or
\* another ftplib error such as error_perm (550, no such file).
FtpOutcomes == {"ok", "EOFError", "error_perm"}

\* One request sent to the network and how it ended.
Request(verb, outcome) == [verb |-> verb, outcome |-> outcome]

NoResult == [kind |-> "none", type |-> "", detail |-> ""]

\* return filepath / return output
ReturnedResult(value) == [kind |-> "returned", type |-> "", detail |-> value]

\* raise type(detail): the detail is what the message names.
RaisedResult(type, detail) == [kind |-> "raised", type |-> type, detail |-> detail]

\* remote_url.startswith('http')
IsHttp(scheme) == scheme \in {"http", "https"}

\* A test for ftp:// that no URL passes.
IsFtpNever(scheme) == FALSE

\* remote_url.startswith('ftp://'), location.startswith('ftp://')
IsFtp(scheme) == scheme = "ftp"

\* An except clause that catches every error of the attempt.
CaughtAny(outcome) == outcome # "ok"

\* except EOFError
Caught(outcome) == outcome = "EOFError"

\* A loop that goes round once more than range(retries).
OneMoreAttempt(i) == i <= retries

\* for i in range(retries): after i failed attempts another one follows.
MoreAttempts(i) == i < retries

\* location: the Location of a 302 answer to the HEAD request; local: the file at the
\* local path; before: what it was when the call began.
IdleFetch ==
    [pc |-> "idle", fn |-> "", scheme |-> "", i |-> 0, log |-> <<>>, result |-> NoResult,
     local |-> "absent", n |-> 0, location |-> "", before |-> "absent"]

\* download_file(remote_url, local_file_path) up to its first request, called as fn
\* with the local file as it is: http(s) goes to the HEAD request, ftp:// to
\* _download_file_ftp, anything else raises AttributeError at once.
DownloadFileCall(f, fn, scheme, local) ==
    [f EXCEPT !.fn = fn, !.scheme = scheme, !.i = 0, !.log = <<>>, !.n = @ + 1,
              !.location = "", !.before = f.local, !.local = local,
              !.pc = IF IsHttp(scheme) THEN "head" ELSE IF IsFtp(scheme) THEN "ftp" ELSE "idle",
              !.result = IF IsHttp(scheme) \/ IsFtp(scheme) THEN NoResult
                         ELSE RaisedResult("AttributeError", scheme)]

\* download_file up to its first request: http(s) goes to the HEAD request, ftp://
\* to _download_file_ftp, anything else raises AttributeError at once.
download_file ==
    /\ fetch.pc = "idle"
    /\ fetch.n < MaxFetches
    /\ \E scheme \in Schemes :
         fetch' = DownloadFileCall(fetch, "download_file", scheme, fetch.local)
    /\ UNCHANGED <<fs, calls, clock, pull, client, mirror, apart>>

\* download_file_to_dir: with overwrite an existing file is removed and the URL is
\* downloaded; without, the URL is downloaded only if os.path.isfile(path) is false,
\* else the path of the existing file is returned.
download_file_to_dir ==
    /\ fetch.pc = "idle"
    /\ fetch.n < MaxFetches
    /\ \E scheme \in Schemes, overwrite \in BOOLEAN :
         fetch' = IF overwrite
                  THEN DownloadFileCall(fetch, "download_file_to_dir", scheme, "absent")
                  ELSE IF fetch.local = "absent"
                       THEN DownloadFileCall(fetch, "download_file_to_dir", scheme, fetch.local)
                       ELSE [fetch EXCEPT !.fn = "download_file_to_dir", !.scheme = scheme, !.i = 0,
                                          !.log = <<>>, !.n = @ + 1, !.location = "",
                                          !.before = fetch.local,
                                          !.result = ReturnedResult("path")]
    /\ UNCHANGED <<fs, calls, clock, pull, client, mirror, apart>>

\* _read_text_file_ftp up to its loop: the url is given the ftp:// prefix if it lacks it.
read_text_file_ftp ==
    /\ fetch.pc = "idle"
    /\ fetch.n < MaxFetches
    /\ fetch' = [fetch EXCEPT !.fn = "_read_text_file_ftp", !.scheme = "ftp", !.i = 0, !.log = <<>>,
                               !.n = @ + 1, !.pc = "ftp", !.result = NoResult,
                               !.location = "", !.before = fetch.local]
    /\ UNCHANGED <<fs, calls, clock, pull, client, mirror, apart>>

\* requests.head(remote_url, allow_redirects=False): a 302 to an ftp:// location goes
\* to _download_file_ftp, everything else to _download_file_http.
RequestsHead ==
    /\ fetch.pc = "head"
    /\ \E status \in StatusCodes, location \in {"ftp", "http"} :
         fetch' = [fetch EXCEPT !.log = Append(@, Request("HEAD", status)),
                                !.location = IF status = "302" THEN location ELSE "",
                                !.pc = IF status = "302" /\ IsFtp(location) THEN "ftp" ELSE "get"]
    /\ UNCHANGED <<fs, calls, clock, pull, client, mirror, apart>>

\* _download_file_http: one GET; 200 writes the file and returns the path, any other
\* status raises ValueError with the status code.
DownloadFileHttp ==
    /\ fetch.pc = "get"
    /\ \E status \in StatusCodes :
         fetch' = [fetch EXCEPT !.log = Append(@, Request("GET", status)),
                                !.pc = "idle",
                                !.local = IF status = "200" THEN "complete" ELSE @,
                                !.result = IF status = "200" THEN ReturnedResult("path")
                                           ELSE RaisedResult("ValueError", status)]
    /\ UNCHANGED <<fs, calls, clock, pull, client, mirror, apart>>

\* One round of the loop of _download_file_ftp / _read_text_file_ftp: success returns,
\* a caught error goes to the next round or, after the last, to the ValueError behind
\* the loop; any other error leaves the function. _download_file_ftp opens the local
\* file 'wb' before RETR, so an attempt that fails may leave it truncated.
FtpAttempt ==
    /\ fetch.pc = "ftp"
    /\ MoreAttempts(fetch.i)
    /\ \E outcome \in FtpOutcomes, opened \in BOOLEAN :
         LET local == IF fetch.fn = "_read_text_file_ftp" THEN fetch.local
                      ELSE IF outcome = "ok" THEN "complete"
                      ELSE IF opened THEN "partial" ELSE fetch.local
             logged == Append(fetch.log, Request("RETR", outcome))
         IN IF outcome = "ok"
            THEN fetch' = [fetch EXCEPT !.log = logged, !.local = local, !.pc = "idle",
                               !.result = ReturnedResult(IF fetch.fn = "_read_text_file_ftp"
                                                         THEN "content" ELSE "path")]
            ELSE IF Caught(outcome)
                 THEN IF MoreAttempts(fetch.i + 1)
                      THEN fetch' = [fetch EXCEPT !.log = logged, !.local = local, !.i = @ + 1]
                      ELSE fetch' = [fetch EXCEPT !.log = logged, !.local = local, !.i = @ + 1,
                                         !.pc = "idle", !.result = RaisedResult("ValueError", "path")]
                 ELSE fetch' = [fetch EXCEPT !.log = logged, !.local = local, !.pc = "idle",
                                    !.result = RaisedResult(outcome, "")]
    /\ UNCHANGED <<fs, calls, clock, pull, client, mirror, apart>>

\* --------------------------------------------- download_directory_from_ftp

\* Number of download_directory_from_ftp calls.
MaxMirrors == 2

\* Number of remote files that disappear while a call is under way.
MaxVanish == 1

\* source: the remote directory to mirror.
Source == <<"src">>

\* The directories of the remote tree, as paths, in the order ftp_host.walk(source)
\* yields them.
WalkOrder == << <<"src">>, <<"src", "keep">>, <<"src", "drop">> >>

\* The files the server lists in a directory.
FilesOf(dirname) ==
    IF dirname = <<"src">> THEN <<"a">>
    ELSE IF dirname = <<"src", "keep">> THEN <<"b", "c">> ELSE <<"d">>

\* remote_file = os.path.join(dirname, f)
RemoteFile(dirname, f) == [dir |-> dirname, name |-> f]

\* The files of the remote tree.
AllRemoteFiles == UNION {{RemoteFile(d, f) : f \in Range(FilesOf(d))} : d \in Range(WalkOrder)}

\* this_target = dirname[len(source) + 1:]
ThisTarget(dirname) == SubSeq(dirname, Len(Source) + 1, Len(dirname))

\* local_file = os.path.join(this_target_dir, f)
LocalFile(dirname, f) == [dir |-> ThisTarget(dirname), name |-> f]

\* The arguments of a call: overwrite (None and False alike are FALSE) and the lists.
ParamChoices ==
    [overwrite : BOOLEAN, file_blacklist : {{}, {"c"}},
     dir_blacklist : {{}, {"drop"}}, dir_whitelist : {{}, {"keep"}}]

\* x in dirname, for an x that is the name of a path component.
Occurs(x, dirname) == \E i \in DOMAIN dirname : dirname[i] = x

\* any(x in dirname for x in patterns)
AnyOccurs(patterns, dirname) == \E x \in patterns : Occurs(x, dirname)

\* The walk loop passes over dirname: an element of dir_blacklist is in it, or
\* dir_whitelist is given and an element of it is in dirname.
Skipped(dirname, p) ==
    \/ AnyOccurs(p.dir_blacklist, dirname)
    \/ p.dir_whitelist # {} /\ AnyOccurs(p.dir_whitelist, dirname)

\* An isfile test that never finds the file.
IsFileNever(local, path) == FALSE

\* os.path.isfile(local_file)
IsFile(local, path) == path \in DOMAIN local

IdleMirror ==
    [pc |-> "idle", n |-> 0, params |-> [overwrite |-> FALSE, file_blacklist |-> {},
                                         dir_blacklist |-> {}, dir_whitelist |-> {}],
     dirs |-> <<>>, files |-> <<>>, remote |-> AllRemoteFiles,
     ldirs |-> {}, local |-> [x \in {} |-> 0],
     local_files |-> {}, downloaded |-> {}, entered |-> {}, missed |-> {},
     result |-> "none", snap |-> [ok |-> FALSE, local |-> [x \in {} |-> 0]]]

\* download_directory_from_ftp up to the walk: os.makedirs(target), local_files = [].
\* The caller repeats the call with the arguments of its first call.
MirrorCall ==
    /\ mirror.pc = "idle"
    /\ mirror.n < MaxMirrors
    /\ \E p \in (IF mirror.n = 0 THEN ParamChoices ELSE {mirror.params}) :
         mirror' = [mirror EXCEPT !.pc = "walk", !.n = @ + 1, !.params = p,
                                  !.dirs = WalkOrder, !.files = <<>>,
                                  !.ldirs = @ \cup {<<>>},
                                  !.local_files = {}, !.downloaded = {}, !.entered = {},
                                  !.missed = {}, !.result = "none",
                                  !.snap = [ok |-> mirror.result = "returned", local |-> mirror.local]]
    /\ UNCHANGED <<fs, calls, clock, pull, client, fetch, apart>>

\* One directory of the walk: listed by the server, then passed over or entered
\* (os.mkdir of this_target_dir unless it exists).
MirrorDir ==
    /\ mirror.pc = "walk"
    /\ mirror.dirs # <<>>
    /\ LET dirname == Head(mirror.dirs)
           listed(f) == RemoteFile(dirname, f) \in mirror.remote
           files == SelectSeq(FilesOf(dirname), listed)
       IN IF Skipped(dirname, mirror.params)
          THEN mirror' = [mirror EXCEPT !.dirs = Tail(@)]
          ELSE IF files = <<>>
               THEN mirror' = [mirror EXCEPT !.dirs = Tail(@),
                                             !.ldirs = @ \cup {ThisTarget(dirname)},
                                             !.entered = @ \cup {dirname}]
               ELSE mirror' = [mirror EXCEPT !.pc = "files", !.files = files,
                                             !.ldirs = @ \cup {ThisTarget(dirname)},
                                             !.entered = @ \cup {dirname}]
    /\ UNCHANGED <<fs, calls, clock, pull, client, fetch, apart>>

\* One file of the directory: passed over when in file_blacklist; with overwrite
\* downloaded, an FTPIOError leaving the call; without overwrite downloaded unless it
\* is there, an FTPIOError being caught; local_files.append(local_file) in either case.
MirrorFile ==
    /\ mirror.pc = "files"
    /\ LET dirname == Head(mirror.dirs)
           f == Head(mirror.files)
           local_file == LocalFile(dirname, f)
           gone == RemoteFile(dirname, f) \notin mirror.remote
           rest == Tail(mirror.files)
           on == [mirror EXCEPT !.files = rest,
                                !.pc = IF rest = <<>> THEN "walk" ELSE "files",
                                !.dirs = IF rest = <<>> THEN Tail(@) ELSE @]
           got == [on EXCEPT !.local = [x \in DOMAIN @ \cup {local_file} |->
                                            IF x = local_file THEN mirror.n ELSE @[x]],
                             !.downloaded = @ \cup {local_file},
                             !.local_files = @ \cup {local_file}]
       IN IF f \in mirror.params.file_blacklist
          THEN mirror' = on
          ELSE IF mirror.params.overwrite
               THEN IF gone
                    THEN mirror' = [mirror EXCEPT !.pc = "idle", !.result = "raised",
                                                  !.missed = @ \cup {local_file}]
                    ELSE mirror' = got
               ELSE IF ~IsFile(mirror.local, local_file)
                    THEN IF gone
                         THEN mirror' = [on EXCEPT !.missed = @ \cup {local_file},
                                                   !.local_files = @ \cup {local_file}]
                         ELSE mirror' = got
                    ELSE mirror' = [on EXCEPT !.local_files = @ \cup {local_file}]
    /\ UNCHANGED <<fs, calls, clock, pull, client, fetch, apart>>

\* return local_files
MirrorReturn ==
    /\ mirror.pc = "walk"
    /\ mirror.dirs = <<>>
    /\ mirror' = [mirror EXCEPT !.pc = "idle", !.result = "returned"]
    /\ UNCHANGED <<fs, calls, clock, pull, client, fetch, apart>>

\* A file of the directory being mirrored is removed on the server after the
\* directory was listed and before the file is downloaded.
Vanish ==
    /\ mirror.pc = "files"
    /\ Cardinality(AllRemoteFiles \ mirror.remote) < MaxVanish
    /\ \E k \in DOMAIN mirror.files :
         /\ RemoteFile(Head(mirror.dirs), mirror.files[k]) \in mirror.remote
         /\ mirror' = [mirror EXCEPT !.remote = @ \ {RemoteFile(Head(mirror.dirs), mirror.files[k])}]
    /\ UNCHANGED <<fs, calls, clock, pull, client, fetch, apart>>

\* ------------------------ a client opening a known id, and clearing the store

\* Number of calls a client makes on the store directly.
MaxClientCalls == 1

\* The last call of the client: its number, the operation, the uuid it was about and
\* the exception it raised ("None" when it returned).
ClientCall(n, op, uuid, raised) == [n |-> n, op |-> op, uuid |-> uuid, raised |-> raised]

NoClient == ClientCall(0, "", 0, "None")

\* The directory forms of uuid that exist in f.
FormsIn(f, uuid) ==
    {n \in {ProcessInstanceDir(uuid), InstanceDir(uuid), ErrorInstancePath(uuid)} : n \in DOMAIN f}

\* DataSourceInstance(datasource, uuid=<uuid of call i>).prepare_download(), where a
\* directory of that uuid exists: os.mkdir only when process_<uuid> is not there, and
\* the operating system may refuse it.
OpenColliding(i) ==
    /\ client.n < MaxClientCalls
    /\ FormsIn(fs, i) # {}
    /\ \/ /\ fs' = prepare_download(fs, i)
          /\ client' = ClientCall(client.n + 1, "prepare_download", i, "None")
       \/ /\ ProcessInstanceDir(i) \notin DOMAIN fs
          /\ fs' = fs
          /\ client' = ClientCall(client.n + 1, "prepare_download", i, "OSError")
    /\ UNCHANGED <<calls, clock, pull, fetch, mirror, apart>>

\* name.startswith('.')
IsHidden(n) == n.prefix = "."

\* The loop of clear_datasource_directory over a listing: hidden names are passed
\* over, shutil.rmtree removes a directory with all it holds and raises
\* NotADirectoryError on a plain file, which ends the loop.
RECURSIVE ClearLoop(_, _)
ClearLoop(f, names) ==
    IF names = <<>>
    THEN [fs |-> f, raised |-> "None"]
    ELSE IF IsHidden(Head(names))
         THEN ClearLoop(f, Tail(names))
         ELSE IF f[Head(names)].kind # "dir"
              THEN [fs |-> f, raised |-> "NotADirectoryError"]
              ELSE ClearLoop(Remove(f, Head(names)), Tail(names))

clear_datasource_directory ==
    /\ client.n < MaxClientCalls
    /\ \E listing \in list_instances :
         LET done == ClearLoop(fs, listing)
         IN /\ fs' = done.fs
            /\ client' = ClientCall(client.n + 1, "clear", 0, done.raised)
    /\ UNCHANGED <<calls, clock, pull, fetch, mirror, apart>>

\* An on_error that swallows the failure of its rename.
OnErrorQuiet(f, uuid) ==
    IF RenameOk(f, ProcessInstanceDir(uuid), ErrorInstancePath(uuid))
    THEN [fs |-> Rename(f, ProcessInstanceDir(uuid), ErrorInstancePath(uuid)), raised |-> "None"]
    ELSE [fs |-> f, raised |-> "None"]

\* on_error(): os.rename(process_<uuid>, error_<uuid>), whose error is not caught.
on_error(f, uuid) ==
    IF ProcessInstanceDir(uuid) \notin DOMAIN f
    THEN [fs |-> f, raised |-> "FileNotFoundError"]
    ELSE IF RenameOk(f, ProcessInstanceDir(uuid), ErrorInstancePath(uuid))
         THEN [fs |-> Rename(f, ProcessInstanceDir(uuid), ErrorInstancePath(uuid)), raised |-> "None"]
         ELSE [fs |-> f, raised |-> "OSError"]

\* wrap_up(): store() opens process_<uuid>/metadata.json for writing, then
\* os.rename(process_<uuid>, <uuid>); neither error is caught.
wrap_up(f, uuid, args, created) ==
    IF ~StoreOk(f, uuid)
    THEN [fs |-> f, raised |-> "FileNotFoundError"]
    ELSE LET stored == store(f, uuid, args, created)
         IN IF RenameOk(stored, ProcessInstanceDir(uuid), InstanceDir(uuid))
            THEN [fs |-> Rename(stored, ProcessInstanceDir(uuid), InstanceDir(uuid)), raised |-> "None"]
            ELSE [fs |-> stored, raised |-> "OSError"]

\* A client calls wrap_up() on the instance of download() call i.
ClientWrapUp(i) ==
    /\ client.n < MaxClientCalls
    /\ Held(i)
    /\ LET done == wrap_up(fs, i, calls[i].download_arguments, calls[i].instance_created)
       IN /\ fs' = done.fs
          /\ client' = ClientCall(client.n + 1, "wrap_up", i, done.raised)
    /\ UNCHANGED <<calls, clock, pull, fetch, mirror, apart>>

\* A client calls on_error() on the instance of download() call i.
ClientOnError(i) ==
    /\ client.n < MaxClientCalls
    /\ Held(i)
    /\ LET done == on_error(fs, i)
       IN /\ fs' = done.fs
          /\ client' = ClientCall(client.n + 1, "on_error", i, done.raised)
    /\ UNCHANGED <<calls, clock, pull, fetch, mirror, apart>>

\* ------------------------------------ list_remote_instances, push_to_remote

MaxRemoteCalls == 1

\* An entry of the data source directory on the server: a directory or a plain file,
\* and the state of the metadata.json in it.
RemoteEntry(kind, meta) == [kind |-> kind, meta |-> meta]

\* What other deployments may leave in the remote directory besides the Ready
\* instances 101 and 102: a Failed and a Building directory, a hidden directory or
\* file, a directory whose metadata.json never arrived, a plain file.
Publishable ==
    {<<ErrorInstancePath(103), RemoteEntry("dir", "missing")>>,
     <<Name(".", 104), RemoteEntry("dir", "missing")>>,
     <<Name(".", 104), RemoteEntry("file", "missing")>>,
     <<ProcessInstanceDir(105), RemoteEntry("dir", "missing")>>,
     <<InstanceDir(106), RemoteEntry("dir", "missing")>>,
     <<InstanceDir(106), RemoteEntry("file", "missing")>>}

\* RemoteProtocols, and the one list_remote_instances and push_to_remote have no branch for.
Protocols == {"http", "ftp", "https"}

\* The last call on the remote directory: its number, the operation, the protocol,
\* whether the listing request succeeded, the exception and the descriptors returned.
RemoteCall(entries, n, op, protocol, listed, raised, instances) ==
    [entries |-> entries, n |-> n, op |-> op, protocol |-> protocol, listed |-> listed,
     raised |-> raised, instances |-> instances]

IdleRemote ==
    RemoteCall([n \in {InstanceDir(u) : u \in RemoteUuids} |-> RemoteEntry("dir", "ok")],
               0, "", "", TRUE, "None", <<>>)

\* The test on one listed entry: a link of the HTML page by its text, an item of the
\* FTP listing by its permissions and its name.
TakenUp(protocol, entries, n) ==
    IF protocol = "http"
    THEN ~IsHidden(n) /\ n.prefix # "error_"
    ELSE entries[n].kind = "dir" /\ n.prefix # "error_"

\* The request for the metadata.json of one entry. The link of a plain file has no
\* trailing '/', so urljoin asks for the metadata.json of the data source directory
\* itself, which is not there.
ManifestRequest(entries, n) ==
    IF entries[n].kind = "dir" THEN entries[n].meta ELSE "missing"

\* A loop body that passes over an entry whose metadata.json cannot be had.
RemoteListStepSkipping(acc, protocol, entries, n) ==
    IF TakenUp(protocol, entries, n) /\ ManifestRequest(entries, n) = "ok"
    THEN [acc EXCEPT !.instances = Append(@, FromDict(RemoteManifest(n.stem)))]
    ELSE acc

\* The loop body of _http_list_remote_instances and _ftp_list_remote_instances.
RemoteListStep(acc, protocol, entries, n) ==
    IF ~TakenUp(protocol, entries, n)
    THEN acc
    ELSE IF ManifestRequest(entries, n) = "missing"
         THEN [raised |-> IF protocol = "http" THEN "Exception" ELSE "error_perm",
               instances |-> <<>>]
         ELSE IF ManifestRequest(entries, n) = "unparsable"
              THEN [raised |-> "JSONDecodeError", instances |-> <<>>]
              ELSE [acc EXCEPT !.instances = Append(@, FromDict(RemoteManifest(n.stem)))]

RECURSIVE RemoteListLoop(_, _, _, _)
RemoteListLoop(acc, protocol, entries, names) ==
    IF acc.raised # "None" \/ names = <<>>
    THEN acc
    ELSE RemoteListLoop(RemoteListStep(acc, protocol, entries, Head(names)),
                        protocol, entries, Tail(names))

\* list_remote_instances: the listing request, then the loop; None for a protocol
\* that is neither 'http' nor 'ftp'.
list_remote_instances(protocol, entries, listing, listed) ==
    IF protocol \notin {"http", "ftp"}
    THEN [raised |-> "None", instances |-> <<>>]
    ELSE IF ~listed
         THEN [raised |-> IF protocol = "http" THEN "Exception" ELSE "error_perm",
               instances |-> <<>>]
         ELSE RemoteListLoop([raised |-> "None", instances |-> <<>>], protocol, entries, listing)

\* Another deployment leaves an entry in the remote directory.
RemotePublish ==
    /\ \E p \in Publishable :
         /\ p[1] \notin DOMAIN remote.entries
         /\ remote' = [remote EXCEPT !.entries = Put(@, p[1], p[2])]
    /\ UNCHANGED <<fs, calls, clock, pull, client, fetch, mirror, version, lookup, later>>

\* The upload of the metadata.json of instance 102 is cut off.
RemoteDamage ==
    /\ remote.entries[InstanceDir(102)].meta = "ok"
    /\ remote' = [remote EXCEPT !.entries[InstanceDir(102)].meta = "unparsable"]
    /\ UNCHANGED <<fs, calls, clock, pull, client, fetch, mirror, version, lookup, later>>

\* A call of list_remote_instances.
ListRemote ==
    /\ remote.n < MaxRemoteCalls
    /\ \E protocol \in Protocols, listed \in BOOLEAN, listing \in Orders(DOMAIN remote.entries) :
         LET done == list_remote_instances(protocol, remote.entries, listing, listed)
         IN remote' = RemoteCall(remote.entries, remote.n + 1, "list", protocol, listed,
                                 done.raised, done.instances)
    /\ UNCHANGED <<fs, calls, clock, pull, client, fetch, mirror, version, lookup, later>>

\* push_to_remote: for 'ftp' it logs in (which may fail) and closes the connection;
\* for any other protocol it does nothing.
PushToRemote ==
    /\ remote.n < MaxRemoteCalls
    /\ \E protocol \in Protocols, overwrite \in BOOLEAN, connected \in BOOLEAN :
         remote' = RemoteCall(remote.entries, remote.n + 1, "push", protocol, connected,
                              IF protocol = "ftp" /\ ~connected THEN "error_perm" ELSE "None",
                              <<>>)
    /\ UNCHANGED <<fs, calls, clock, pull, client, fetch, mirror, version, lookup, later>>

\* ---------------------------------------------------------------- strings

\* A string is the sequence of its characters.
DigitChar == <<"0", "1", "2", "3", "4", "5", "6", "7", "8", "9">>

IsDigit(c) == c \in Range(DigitChar)

IsLower(c) == c \in {"a", "b"}

DigitVal(c) == CHOOSE d \in 0..9 : DigitChar[d + 1] = c

\* str(n) of a natural number.
RECURSIVE NatStr(_)
NatStr(n) == IF n < 10 THEN <<DigitChar[n + 1]>> ELSE NatStr(n \div 10) \o <<DigitChar[(n % 10) + 1]>>

\* '%0<width>d' % n
RECURSIVE Pad(_, _)
Pad(s, width) == IF Len(s) >= width THEN s ELSE Pad(<<"0">> \o s, width)

\* The number a run of digits stands for.
RECURSIVE DigitsValue(_)
DigitsValue(s) ==
    IF s = <<>> THEN 0 ELSE DigitsValue(SubSeq(s, 1, Len(s) - 1)) * 10 + DigitVal(s[Len(s)])

StartsWith(s, sub) == Len(s) >= Len(sub) /\ SubSeq(s, 1, Len(sub)) = sub

Rest(s, k) == SubSeq(s, k + 1, Len(s))

\* sub in s
RECURSIVE Contains(_, _)
Contains(s, sub) ==
    IF Len(s) < Len(sub) THEN FALSE
    ELSE StartsWith(s, sub) \/ Contains(Tail(s), sub)

\* s.replace(old, new): every occurrence, found from the left, without overlap.
RECURSIVE Replace(_, _, _)
Replace(s, old, new) ==
    IF Len(s) < Len(old) \/ s = <<>> THEN s
    ELSE IF StartsWith(s, old)
         THEN new \o Replace(Rest(s, Len(old)), old, new)
         ELSE <<Head(s)>> \o Replace(Tail(s), old, new)

\* s.split(sep) for a separator of one character: the fields, empty ones included.
RECURSIVE Split(_, _)
Split(s, sep) ==
    IF s = <<>> THEN << <<>> >>
    ELSE LET rest == Split(Tail(s), sep)
         IN IF Head(s) = sep
            THEN << <<>> >> \o rest
            ELSE << <<Head(s)>> \o Head(rest) >> \o Tail(rest)

\* ------------------------------------------------- timestamps, filehandler

\* A datetime.datetime: date, time of day and microsecond.
Timestamps ==
    [year : {1999, 2020}, month : {1, 12}, day : {2}, hour : {0, 23}, minute : {4},
     second : {0, 59}, microsecond : {0, 5, 120000}]

NoTime == [year |-> 0, month |-> 0, day |-> 0, hour |-> 0, minute |-> 0, second |-> 0, microsecond |-> 0]

\* str(datetime): 'YYYY-MM-DD HH:MM:SS', followed by '.ffffff' unless the
\* microsecond is 0.
StrOfDatetime(t) ==
    Pad(NatStr(t.year), 4) \o <<"-">> \o Pad(NatStr(t.month), 2) \o <<"-">> \o Pad(NatStr(t.day), 2)
    \o <<" ">> \o Pad(NatStr(t.hour), 2) \o <<":">> \o Pad(NatStr(t.minute), 2)
    \o <<":">> \o Pad(NatStr(t.second), 2)
    \o (IF t.microsecond = 0 THEN <<>> ELSE <<".">> \o Pad(NatStr(t.microsecond), 6))

AllDigits(s) == \A k \in DOMAIN s : IsDigit(s[k])

\* The strings str(datetime) prints.
IsDatetimeString(s) ==
    /\ Len(s) \in {19, 26}
    /\ s[5] = "-" /\ s[8] = "-" /\ s[11] = " " /\ s[14] = ":" /\ s[17] = ":"
    /\ AllDigits(SubSeq(s, 1, 4)) /\ AllDigits(SubSeq(s, 6, 7)) /\ AllDigits(SubSeq(s, 9, 10))
    /\ AllDigits(SubSeq(s, 12, 13)) /\ AllDigits(SubSeq(s, 15, 16)) /\ AllDigits(SubSeq(s, 18, 19))
    /\ Len(s) = 26 => (s[20] = "." /\ AllDigits(SubSeq(s, 21, 26)))

\* dateutil.parser.parse: a string printed by str(datetime) gives that datetime
\* back. For any other string the outcome is the library's: it raises or it fills
\* the gaps from today's date, so both are outcomes here (the datetime is unknown).
ParseDatetime(s) ==
    IF IsDatetimeString(s)
    THEN {[raised |-> "None",
           t |-> [year |-> DigitsValue(SubSeq(s, 1, 4)), month |-> DigitsValue(SubSeq(s, 6, 7)),
                  day |-> DigitsValue(SubSeq(s, 9, 10)), hour |-> DigitsValue(SubSeq(s, 12, 13)),
                  minute |-> DigitsValue(SubSeq(s, 15, 16)), second |-> DigitsValue(SubSeq(s, 18, 19)),
                  microsecond |-> IF Len(s) = 26 THEN DigitsValue(SubSeq(s, 21, 26)) ELSE 0]]}
    ELSE {[raised |-> "ParserError", t |-> NoTime], [raised |-> "None", t |-> NoTime]}

\* A directory name in which ':' and '.' are written alike.
DirnameColonAsDot(some_datetime) ==
    Replace(Replace(Replace(StrOfDatetime(some_datetime), <<" ">>, <<"_", "_", "_">>),
                    <<":">>, <<"_">>),
            <<".">>, <<"_">>)

\* _dirname_from_datetime
dirname_from_datetime(some_datetime) ==
    Replace(Replace(Replace(StrOfDatetime(some_datetime), <<" ">>, <<"_", "_", "_">>),
                    <<":">>, <<"_", "_">>),
            <<".">>, <<"_">>)

\* _datetime_from_dirname: the outcomes of the parse of the decoded name.
datetime_from_dirname(dirname) ==
    ParseDatetime(Replace(Replace(Replace(dirname, <<"_", "_", "_">>, <<" ">>),
                                  <<"_", "_">>, <<":">>),
                          <<"_">>, <<".">>))

\* --------------------------------------------------------- DataSourceVersion

MaxLen == 3

\* What DataSourceVersion is given: a str, an int, a datetime.datetime or a datetime.date.
VersionInput(type, s, n, t) == [type |-> type, s |-> s, n |-> n, t |-> t]

\* datetime.date(year, month, day)
Date(year, month, day) == [NoTime EXCEPT !.year = year, !.month = month, !.day = day]

\* One component of a LooseVersion: an int or a str.
Component(run) ==
    IF IsDigit(run[1])
    THEN [int |-> TRUE, n |-> DigitsValue(run), s |-> <<>>]
    ELSE [int |-> FALSE, n |-> 0, s |-> run]

\* The alternatives of LooseVersion.component_re, and the text between matches.
Class(c) == IF IsDigit(c) THEN "digits" ELSE IF IsLower(c) THEN "letters" ELSE IF c = "." THEN "dot" ELSE "other"

RECURSIVE PrefixLen(_, _)
PrefixLen(s, class) ==
    IF s = <<>> \/ Class(Head(s)) # class THEN 0 ELSE 1 + PrefixLen(Tail(s), class)

\* component_re.split(vstring) without the empty strings.
RECURSIVE Runs(_)
Runs(s) ==
    IF s = <<>> THEN <<>>
    ELSE LET k == IF Head(s) = "." THEN 1 ELSE PrefixLen(s, Class(Head(s)))
         IN <<SubSeq(s, 1, k)>> \o Runs(Rest(s, k))

IsNotDot(run) == run # <<".">>

\* LooseVersion.parse: the components, runs of digits turned into ints.
Components(vstring) ==
    LET kept == SelectSeq(Runs(vstring), IsNotDot)
    IN [k \in DOMAIN kept |-> Component(kept[k])]

\* The value a DataSourceVersion holds, or the exception its constructor raised:
\* kind is the type of self.version.
Version(kind, t, comps, vstring, raised, dir_repr) ==
    [kind |-> kind, t |-> t, comps |-> comps, vstring |-> vstring, raised |-> raised,
     dir_repr |-> dir_repr]

NoMade == Version("", NoTime, <<>>, <<>>, "None", <<>>)

Raised(exception) == Version("", NoTime, <<>>, <<>>, exception, <<>>)

\* self.version = LooseVersion(vstring); dir_repr = str(self.version)
Loose(vstring) == Version("LooseVersion", NoTime, Components(vstring), vstring, "None", vstring)

\* str(datetime.date)
StrOfDate(d) ==
    Pad(NatStr(d.year), 4) \o <<"-">> \o Pad(NatStr(d.month), 2) \o <<"-">> \o Pad(NatStr(d.day), 2)

\* int(field): digits, single underscores between them allowed.
IntOk(field) ==
    /\ field # <<>>
    /\ IsDigit(field[1])
    /\ IsDigit(field[Len(field)])
    /\ \A k \in DOMAIN field : IsDigit(field[k]) \/ field[k] = "_"
    /\ ~Contains(field, <<"_", "_">>)

IntValue(field) == DigitsValue(SelectSeq(field, IsDigit))

IsLeap(year) == year % 4 = 0 /\ (year % 100 # 0 \/ year % 400 = 0)

DaysIn(year, month) ==
    IF month = 2 THEN (IF IsLeap(year) THEN 29 ELSE 28)
    ELSE IF month \in {4, 6, 9, 11} THEN 30 ELSE 31

\* datetime.date(int(f1), int(f2), int(f3)) with its ValueError.
DateOfFields(date_flds) ==
    IF \E k \in 1..3 : ~IntOk(date_flds[k])
    THEN Raised("ValueError")
    ELSE LET year == IntValue(date_flds[1])
             month == IntValue(date_flds[2])
             day == IntValue(date_flds[3])
         IN IF year \in 1..9999 /\ month \in 1..12 /\ day >= 1 /\ day <= DaysIn(year, month)
            THEN Version("date", Date(year, month, day), <<>>, <<>>, "None",
                         StrOfDate(Date(year, month, day)))
            ELSE Raised("ValueError")

\* re.match('^[0-9]', version)
LeadingDigit(s) == s # <<>> /\ IsDigit(s[1])

\* DataSourceVersion(version) for a str: the outcomes of the constructor.
DataSourceVersionOfStr(s) ==
    IF LeadingDigit(s) /\ Contains(s, <<"_", "_", "_">>) /\ Contains(s, <<"_", "_">>)
         /\ Contains(s, <<"_">>)
    THEN {IF r.raised # "None" THEN Raised(r.raised)
          ELSE Version("datetime", r.t, <<>>, <<>>, "None", dirname_from_datetime(r.t))
            : r \in datetime_from_dirname(s)}
    ELSE IF LeadingDigit(s) /\ Len(Split(s, "-")) # 3
         THEN {Loose(s)}
         ELSE IF LeadingDigit(s) /\ Len(Split(s, "-")) = 3
              THEN {DateOfFields(Split(s, "-"))}
              ELSE {Loose(s)}

\* DataSourceVersion(version): by the type of the argument.
DataSourceVersion(input) ==
    IF input.type = "str" THEN DataSourceVersionOfStr(input.s)
    ELSE IF input.type = "int" THEN {Loose(NatStr(input.n))}
    ELSE IF input.type = "datetime"
         THEN {Version("datetime", input.t, <<>>, <<>>, "None", dirname_from_datetime(input.t))}
         ELSE {Version("date", input.t, <<>>, <<>>, "None", StrOfDate(input.t))}

\* ord(c) of the characters that occur.
Ord(c) ==
    IF c = " " THEN 32 ELSE IF c = "-" THEN 45 ELSE IF c = "." THEN 46
    ELSE IF IsDigit(c) THEN 48 + DigitVal(c)
    ELSE IF c = ":" THEN 58 ELSE IF c = "_" THEN 95 ELSE IF c = "a" THEN 97 ELSE 98

\* The order of two sequences of numbers, as Python orders tuples and strings.
RECURSIVE SeqCmp(_, _)
SeqCmp(a, b) ==
    IF a = <<>> /\ b = <<>> THEN "eq"
    ELSE IF a = <<>> THEN "lt"
    ELSE IF b = <<>> THEN "gt"
    ELSE IF Head(a) < Head(b) THEN "lt"
    ELSE IF Head(a) > Head(b) THEN "gt"
    ELSE SeqCmp(Tail(a), Tail(b))

StrCmp(a, b) == SeqCmp([k \in DOMAIN a |-> Ord(a[k])], [k \in DOMAIN b |-> Ord(b[k])])

TimeKey(t) == <<t.year, t.month, t.day, t.hour, t.minute, t.second, t.microsecond>>

\* The order of two component lists: decided at the first place where they differ,
\* and a TypeError when an int meets a str there.
RECURSIVE CompsCmp(_, _)
CompsCmp(a, b) ==
    IF a = <<>> /\ b = <<>> THEN "eq"
    ELSE IF a = <<>> THEN "lt"
    ELSE IF b = <<>> THEN "gt"
    ELSE IF Head(a) = Head(b) THEN CompsCmp(Tail(a), Tail(b))
    ELSE IF Head(a).int /\ Head(b).int THEN (IF Head(a).n < Head(b).n THEN "lt" ELSE "gt")
    ELSE IF ~Head(a).int /\ ~Head(b).int THEN StrCmp(Head(a).s, Head(b).s)
    ELSE "TypeError"

\* self.version against other.version: "lt", "eq", "gt"; "TypeError" when LooseVersion._cmp
\* raises; "unordered" for two types that are unequal and raise TypeError when ordered.
Cmp(a, b) ==
    IF a.kind # b.kind THEN "unordered"
    ELSE IF a.kind = "LooseVersion" THEN CompsCmp(a.comps, b.comps)
    ELSE SeqCmp(TimeKey(a.t), TimeKey(b.t))

Bool(b) == IF b THEN "True" ELSE "False"

Ops == {"==", "!=", "<", "<=", ">", ">="}

\* __eq__ .. __ge__: the comparison of the two values; a TypeError is caught, a
\* warning logged and nothing returned (None).
CompareOp(op, a, b) ==
    LET c == Cmp(a, b)
    IN IF c = "TypeError" THEN "None"
       ELSE IF c = "unordered" /\ op \notin {"==", "!="} THEN "None"
       ELSE IF op = "==" THEN Bool(c = "eq")
       ELSE IF op = "!=" THEN Bool(c # "eq")
       ELSE IF op = "<" THEN Bool(c = "lt")
       ELSE IF op = "<=" THEN Bool(c \in {"lt", "eq"})
       ELSE IF op = ">" THEN Bool(c = "gt")
       ELSE Bool(c \in {"gt", "eq"})

\* The characters of the strings tried, and the strings of at most k of them.
Alphabet == {"1", "a", "-", "_", "."}

RECURSIVE StringsUpTo(_)
StringsUpTo(k) ==
    IF k = 0 THEN {<<>>}
    ELSE StringsUpTo(k - 1) \cup {Append(s, c) : s \in StringsUpTo(k - 1), c \in Alphabet}

\* Strings of three '-'-separated fields.
Fields == {<<"1">>, <<"1", "3">>, <<"a">>, <<>>}

DateLike == {a \o <<"-">> \o b \o <<"-">> \o c : a \in Fields, b \in Fields, c \in Fields}

VersionInputs ==
    {VersionInput("str", s, 0, NoTime) :
        s \in StringsUpTo(MaxLen) \cup DateLike \cup {dirname_from_datetime(t) : t \in Timestamps}}
    \cup {VersionInput("int", <<>>, n, NoTime) : n \in {0, 7, 13}}
    \cup {VersionInput("datetime", <<>>, 0, t) : t \in Timestamps}
    \cup {VersionInput("date", <<>>, 0, Date(2013, 5, 6))}

\* The versions a made one is compared with: '2013-05-06', '10.3.1', 'a' and a datetime.
CompareWith ==
    UNION {DataSourceVersion(input) :
             input \in {VersionInput("str", <<"2", "0", "1", "3", "-", "0", "5", "-", "0", "6">>, 0, NoTime),
                        VersionInput("str", <<"1", "0", ".", "3", ".", "1">>, 0, NoTime),
                        VersionInput("str", <<"a">>, 0, NoTime),
                        VersionInput("datetime", <<>>, 0,
                                     [year |-> 2020, month |-> 1, day |-> 2, hour |-> 0,
                                      minute |-> 4, second |-> 0, microsecond |-> 5])}}

\* The last DataSourceVersion made, and the last comparison of it with another.
VersionState(input, made, op, other, result) ==
    [input |-> input, made |-> made, op |-> op, other |-> other, result |-> result]

NoVersion == VersionState(VersionInput("", <<>>, 0, NoTime), NoMade, "", NoMade, "")

\* DataSourceVersion(input): one version is made, of any of the inputs.
MakeVersion ==
    /\ version = NoVersion
    /\ \E input \in VersionInputs : \E made \in DataSourceVersion(input) :
         version' = VersionState(input, made, "", NoMade, "")
    /\ UNCHANGED <<fs, calls, clock, pull, client, fetch, mirror, remote, lookup, later>>

\* made <op> other, for a made version whose value is known.
Compare ==
    /\ version.made.kind # ""
    /\ version.made.kind = "datetime" => version.made.t # NoTime
    /\ \E op \in Ops, other \in CompareWith :
         version' = [version EXCEPT !.op = op, !.other = other,
                                    !.result = CompareOp(op, version.made, other)]
    /\ UNCHANGED <<fs, calls, clock, pull, client, fetch, mirror, remote, lookup, later>>

\* ------------------------------- get_file, get_directory, get_file_from_directory

MaxNodes == 4

\* The names of the files and directories a download leaves in its instance directory.
NodeNames == {"human", "data.zip"}

\* A file or directory below the instance directory, by its path from there.
Node(path, kind) == [path |-> path, kind |-> kind]

\* The directories os.walk(self.instance_dir) visits (<<>> is the instance directory
\* itself), and the files and subdirectories it reports for each.
WalkDirs(tree) == {<<>>} \cup {n.path : n \in {m \in tree : m.kind = "dir"}}

WalkFiles(tree, dirname) ==
    {n.path : n \in {m \in tree : m.kind = "file" /\ Len(m.path) = Len(dirname) + 1
                                   /\ SubSeq(m.path, 1, Len(dirname)) = dirname}}

WalkSubdirs(tree, dirname) ==
    {n.path : n \in {m \in tree : m.kind = "dir" /\ Len(m.path) = Len(dirname) + 1
                                   /\ SubSeq(m.path, 1, Len(dirname)) = dirname}}

\* os.path.basename of a visited directory; the instance directory is named by the uuid.
Basename(dirname) == IF dirname = <<>> THEN "<uuid>" ELSE dirname[Len(dirname)]

\* get_files(filename)
get_files(tree, filename) ==
    UNION {{f \in WalkFiles(tree, dirname) : f[Len(f)] = filename} : dirname \in WalkDirs(tree)}

\* get_directories(directory_name)
get_directories(tree, directory_name) ==
    UNION {{d \in WalkSubdirs(tree, dirname) : d[Len(d)] = directory_name} : dirname \in WalkDirs(tree)}

\* The loop of get_file_from_directory.
files_in_directory(tree, directory_name, filename) ==
    UNION {{f \in WalkFiles(tree, dirname) : f[Len(f)] = filename}
             : dirname \in {d \in WalkDirs(tree) : Basename(d) = directory_name}}

\* A lookup in which the first of several matches wins.
FirstMatch(found) ==
    IF found = {} THEN {[result |-> <<>>, raised |-> "None"]}
    ELSE {[result |-> <<p>>, raised |-> "None"] : p \in found}

\* The end of get_file, get_directory and get_file_from_directory: the one path
\* found, ValueError for several, None (<<>>) for none.
SingleMatch(found) ==
    IF Cardinality(found) = 1 THEN {[result |-> <<p>>, raised |-> "None"] : p \in found}
    ELSE IF Cardinality(found) > 1 THEN {[result |-> <<>>, raised |-> "ValueError"]}
    ELSE {[result |-> <<>>, raised |-> "None"]}

\* The tree of the instance directory and the last lookup in it: the method, its
\* arguments and what it returned or raised.
Lookup(tree, op, directory_name, filename, result, raised) ==
    [tree |-> tree, op |-> op, directory_name |-> directory_name, filename |-> filename,
     result |-> result, raised |-> raised]

NoLookup == Lookup({}, "", "", "", <<>>, "None")

\* The download function leaves one more file or directory in the instance
\* directory; nothing is written once lookups have begun.
TreeWrite ==
    /\ lookup.op = ""
    /\ Cardinality(lookup.tree) < MaxNodes
    /\ \E dirname \in WalkDirs(lookup.tree), name \in NodeNames, kind \in {"file", "dir"} :
         /\ \A n \in lookup.tree : n.path # Append(dirname, name)
         /\ lookup' = [lookup EXCEPT !.tree = @ \cup {Node(Append(dirname, name), kind)}]
    /\ UNCHANGED <<fs, calls, clock, pull, client, fetch, mirror, remote, version, later>>

get_file ==
    /\ \E filename \in NodeNames : \E done \in SingleMatch(get_files(lookup.tree, filename)) :
         lookup' = Lookup(lookup.tree, "get_file", "", filename, done.result, done.raised)
    /\ UNCHANGED <<fs, calls, clock, pull, client, fetch, mirror, remote, version, later>>

get_directory ==
    /\ \E directory_name \in NodeNames :
         \E done \in SingleMatch(get_directories(lookup.tree, directory_name)) :
           lookup' = Lookup(lookup.tree, "get_directory", directory_name, "", done.result, done.raised)
    /\ UNCHANGED <<fs, calls, clock, pull, client, fetch, mirror, remote, version, later>>

get_file_from_directory ==
    /\ \E directory_name \in NodeNames, filename \in NodeNames :
         \E done \in SingleMatch(files_in_directory(lookup.tree, directory_name, filename)) :
           lookup' = Lookup(lookup.tree, "get_file_from_directory", directory_name, filename,
                            done.result, done.raised)
    /\ UNCHANGED <<fs, calls, clock, pull, client, fetch, mirror, remote, version, later>>

\* ------------------------------------------------------ check_remote_files

\* Number of URLs in remote_files.
MaxUrls == 2

\* What requests.head(url, allow_redirects=True) ends with: the status code of the
\* last response, or an exception (no such host, connection refused).
HeadAnswers == {"200", "404", "exception"}

\* What list_ftp_dir(parent_url) ends with for the name of the URL: the listing holds
\* it, the listing does not hold it, or the listing raises (no such directory).
ListAnswers == {"listed", "unlisted", "exception"}

\* out: the URLs are named by their position in remote_files.
NoAvail == [pc |-> "idle", remote_files |-> <<>>, k |-> 0, found |-> <<>>, not_found |-> <<>>]

\* The lists of URLs a data source may declare, each URL given by what it starts with.
UrlLists == UNION {[1..len -> Schemes] : len \in 0..MaxUrls}

\* One round of the loop of check_remote_files over the url at position k.
CheckUrl(out, k, scheme, answer) ==
    IF IsHttp(scheme)
    THEN IF answer = "200" THEN [out EXCEPT !.found = Append(@, k)]
         ELSE [out EXCEPT !.not_found = Append(@, k)]
    ELSE IF IsFtp(scheme)
         THEN IF answer = "listed" THEN [out EXCEPT !.found = Append(@, k)]
              ELSE IF answer = "exception" THEN [out EXCEPT !.not_found = Append(@, k)]
              ELSE out
         ELSE [out EXCEPT !.not_found = Append(@, k)]

\* check_remote_files up to its loop; with no URL it returns the two empty lists.
check_remote_files ==
    /\ avail.pc = "idle"
    /\ \E urls \in UrlLists :
         avail' = [NoAvail EXCEPT !.remote_files = urls, !.k = 1,
                                  !.pc = IF urls = <<>> THEN "returned" ELSE "loop"]
    /\ UNCHANGED <<core, pset, reader>>

\* The loop of check_remote_files, one URL per step; after the last URL it returns out.
CheckNextUrl ==
    /\ avail.pc = "loop"
    /\ \E answer \in IF IsHttp(avail.remote_files[avail.k]) THEN HeadAnswers
                     ELSE IF IsFtp(avail.remote_files[avail.k]) THEN ListAnswers ELSE {"none"} :
         LET out == CheckUrl(avail, avail.k, avail.remote_files[avail.k], answer)
         IN avail' = [out EXCEPT !.k = @ + 1,
                                 !.pc = IF avail.k = Len(avail.remote_files) THEN "returned" ELSE "loop"]
    /\ UNCHANGED <<core, pset, reader>>

\* ---------------------------------------------------------------- ParserSet

\* Number of parsers added to the set.
MaxParsers == 3

\* Number of select calls.
MaxSelects == 2

\* Number of entries of the list passed to select.
MaxSelection == 2

\* The parser classes of the tests; each is a subclass of ReturnParser.
ParserClasses == {"SomeTestParser", "RootTestParser", "DependingTestParser"}

\* parser.container.nodesets: the NodeSet attributes of a parser of the class.
NodeSetsOf(cls) == IF cls = "DependingTestParser" THEN <<>> ELSE <<"source", "target">>

\* parser.container.relationshipsets: the RelationshipSet attributes.
RelationshipSetsOf(cls) == IF cls = "RootTestParser" THEN <<>> ELSE <<"rels">>

\* One entry of the list passed to select: a class name (str) or a class (type).
Selector(by, cls) == [by |-> by, cls |-> cls]

Selectors == {Selector(by, cls) : by \in {"str", "type"}, cls \in ParserClasses \cup {"ReturnParser"}}

Selections == UNION {[1..len -> Selectors] : len \in 0..MaxSelection}

\* p.__class__.__name__ == selection for a str, isinstance(p, selection) for a type.
Matches(cls, selection) ==
    IF selection.by = "str" THEN cls = selection.cls
    ELSE cls = selection.cls \/ selection.cls = "ReturnParser"

\* The parsers are named by the order they were added in; added[p] is the class of p.
\* log holds what the last batch operation did, in order.
NoParserSet ==
    [added |-> <<>>, parsers |-> <<>>, stash |-> <<>>, selection |-> <<>>, selects |-> 0,
     op |-> "", log |-> <<>>]

\* The first loop of select: for each selection, every parser of self.parsers that
\* matches it is appended to active_parsers.
RECURSIVE ActiveParsers(_, _, _, _)
ActiveParsers(parsers, added, selection, active) ==
    IF selection = <<>> THEN active
    ELSE ActiveParsers(parsers, added, Tail(selection),
                       active \o SelectSeq(parsers, LAMBDA p : Matches(added[p], Head(selection))))

\* One step of what a batch operation does to the graph or to a parser.
Did(kind, parser, set) == [kind |-> kind, parser |-> parser, set |-> set]

\* for set in sets: set.merge(graph) / set.create(graph)
WriteSets(kind, parser, sets) == [k \in DOMAIN sets |-> Did(kind, parser, sets[k])]

\* merge_nodes / create_nodes: for p in self.parsers: for nodeset in p.container.nodesets.
RECURSIVE NodeWrites(_, _)
NodeWrites(parsers, added) ==
    IF parsers = <<>> THEN <<>>
    ELSE WriteSets("nodes", Head(parsers), NodeSetsOf(added[Head(parsers)]))
             \o NodeWrites(Tail(parsers), added)

\* merge_relationships / create_relationships.
RECURSIVE RelationshipWrites(_, _)
RelationshipWrites(parsers, added) ==
    IF parsers = <<>> THEN <<>>
    ELSE WriteSets("relationships", Head(parsers), RelationshipSetsOf(added[Head(parsers)]))
             \o RelationshipWrites(Tail(parsers), added)

\* A batch that writes parser by parser, as Parser.merge does for one parser.
RECURSIVE WriteEachParser(_, _)
WriteEachParser(parsers, added) ==
    IF parsers = <<>> THEN <<>>
    ELSE WriteSets("nodes", Head(parsers), NodeSetsOf(added[Head(parsers)]))
             \o WriteSets("relationships", Head(parsers), RelationshipSetsOf(added[Head(parsers)]))
             \o WriteEachParser(Tail(parsers), added)

\* merge: merge_nodes then merge_relationships; create: create_nodes then
\* create_relationships.
WriteAll(parsers, added) == NodeWrites(parsers, added) \o RelationshipWrites(parsers, added)

\* One loop of run_and_merge_sequential: run the parser, merge its sets of one kind,
\* reset it.
RECURSIVE RunAndMerge(_, _, _)
RunAndMerge(kind, parsers, added) ==
    IF parsers = <<>> THEN <<>>
    ELSE LET p == Head(parsers)
         IN <<Did("run", p, "")>>
                \o WriteSets(kind, p, IF kind = "nodes" THEN NodeSetsOf(added[p])
                                      ELSE RelationshipSetsOf(added[p]))
                \o <<Did("reset", p, "")>>
                \o RunAndMerge(kind, Tail(parsers), added)

\* ParserSet.add: the parser is appended to the active list.
add ==
    /\ pset.op = ""
    /\ Len(pset.added) < MaxParsers
    /\ \E cls \in ParserClasses :
         pset' = [pset EXCEPT !.added = Append(@, cls), !.parsers = Append(@, Len(pset.added) + 1)]
    /\ UNCHANGED <<core, avail, reader>>

\* ParserSet.select: the matches become the active list, the parsers of the old active
\* list that are not among them are appended to the stash.
select ==
    /\ pset.op = ""
    /\ pset.selects < MaxSelects
    /\ \E selection \in Selections :
         LET active_parsers == ActiveParsers(pset.parsers, pset.added, selection, <<>>)
         IN pset' = [pset EXCEPT !.parsers = active_parsers,
                                 !.stash = @ \o SelectSeq(pset.parsers,
                                                          LAMBDA p : p \notin Range(active_parsers)),
                                 !.selection = selection, !.selects = @ + 1]
    /\ UNCHANGED <<core, avail, reader>>

\* ParserSet.merge and ParserSet.create over the active parsers.
MergeOrCreate ==
    /\ pset.op = ""
    /\ pset.parsers # <<>>
    /\ \E op \in {"merge", "create"} :
         pset' = [pset EXCEPT !.op = op, !.log = WriteAll(pset.parsers, pset.added)]
    /\ UNCHANGED <<core, avail, reader>>

\* ParserSet.run_and_merge_sequential: the NodeSet loop, then the RelationshipSet loop.
run_and_merge_sequential ==
    /\ pset.op = ""
    /\ pset.parsers # <<>>
    /\ pset' = [pset EXCEPT !.op = "run_and_merge_sequential",
                            !.log = RunAndMerge("nodes", pset.parsers, pset.added)
                                        \o RunAndMerge("relationships", pset.parsers, pset.added)]
    /\ UNCHANGED <<core, avail, reader>>

\* ------------------------------------- latest_local_instance of another task

\* Number of latest_local_instance calls of the other task.
MaxReads == 1

\* names: what is left of the listing; acc: [raised, latest] of the loop; seen: the
\* uuids of the instances get_instance_by_uuid has read.
NoReader ==
    [pc |-> "idle", names |-> <<>>, acc |-> [raised |-> FALSE, latest |-> <<>>],
     argument_check |-> FALSE, download_arguments |-> NoArgs, seen |-> {}, n |-> 0]

\* get_instance_by_uuid: None when the path does not exist, else
\* DataSourceInstance.read, which raises unless <path>/metadata.json can be opened.
get_instance_by_uuid(f, n) ==
    IF n \notin DOMAIN f THEN "None"
    ELSE IF Readable(f[n]) THEN "instance" ELSE "raised"

\* One round of the loop of latest_local_instance over the next name instances_local
\* takes from the listing. A None the generator yields has no download_arguments and
\* no instance_created (AttributeError); without argument_check a None that comes
\* while latest is None is assigned to latest.
ReadStep(f, r) ==
    LET n == Head(r.names)
        got == get_instance_by_uuid(f, n)
        rest == [r EXCEPT !.names = Tail(@)]
    IN IF got = "raised"
       THEN [rest EXCEPT !.acc.raised = TRUE]
       ELSE IF got = "None"
            THEN IF r.argument_check \/ r.acc.latest # <<>>
                 THEN [rest EXCEPT !.acc.raised = TRUE]
                 ELSE rest
            ELSE [rest EXCEPT !.acc = LatestStep(r.acc, ReadInstance(f[n]), r.argument_check,
                                                 r.download_arguments),
                              !.seen = @ \cup {n.stem}]

\* The loop is over: the listing is used up or an exception left the call.
ReadOver(r) == IF r.acc.raised \/ r.names = <<>> THEN [r EXCEPT !.pc = "done"] ELSE r

\* latest_local_instance up to the first instance: os.listdir, the name filter.
ReaderList ==
    /\ reader.pc = "idle"
    /\ reader.n < MaxReads
    /\ \E listing \in list_instances, argument_check \in BOOLEAN, args \in {NoArgs, TaxidsAB} :
         reader' = ReadOver([NoReader EXCEPT !.pc = "loop", !.names = instances_local(listing),
                                             !.argument_check = argument_check,
                                             !.download_arguments = args, !.n = reader.n + 1])
    /\ UNCHANGED <<core, avail, pset>>

\* The next instance of the generator and the body of the loop for it.
ReaderNext ==
    /\ reader.pc = "loop"
    /\ reader' = ReadOver(ReadStep(fs, reader))
    /\ UNCHANGED <<core, avail, pset>>

\* ----------------------------------------------------------- specification

\* BaseDataSource.__init__ has made the data source directory; a hidden file lies in it.
Init ==
    /\ fs = [n \in {HiddenName} |-> Entry("file", <<>>, FALSE)]
    /\ calls = <<>>
    /\ clock = 0
    /\ pull = Idle(0)
    /\ client = NoClient
    /\ fetch = IdleFetch
    /\ mirror = IdleMirror
    /\ remote = IdleRemote
    /\ version = NoVersion
    /\ lookup = NoLookup
    /\ avail = NoAvail
    /\ pset = NoParserSet
    /\ reader = NoReader

\* No download() and no pull is under way: the program is synchronous, one operation
\* begins when the one before has returned, raised or was killed.
Quiescent ==
    /\ pull.pc = "idle"
    /\ \A i \in DOMAIN calls : calls[i].pc \in {"returned", "raised", "crashed"}

Next ==
    \/ Quiescent /\ Download
    \/ Quiescent /\ download_latest_if_not_exists
    \/ \E i \in DOMAIN calls : DownloadFunction(i)
    \/ \E i \in DOMAIN calls : Store(i)
    \/ \E i \in DOMAIN calls : WrapUpRename(i)
    \/ \E i \in DOMAIN calls : OnError(i)
    \/ \E i \in DOMAIN calls : PostDownload(i)
    \/ \E i \in DOMAIN calls : Crash(i)
    \/ Quiescent /\ PullFtpBegin
    \/ PullFtpFile
    \/ PullFtpRaise
    \/ Quiescent /\ PullHttp

Spec == Init /\ [][Next]_vars

\* download() and, on the instances it has left, the instance methods called directly.
NextApi ==
    \/ Quiescent /\ Download
    \/ \E i \in DOMAIN calls : DownloadFunction(i)
    \/ \E i \in DOMAIN calls : Store(i)
    \/ \E i \in DOMAIN calls : WrapUpRename(i)
    \/ \E i \in DOMAIN calls : OnError(i)
    \/ \E i \in DOMAIN calls : PostDownload(i)
    \/ \E i \in DOMAIN calls : ApiPrepareDownload(i)
    \/ \E i \in DOMAIN calls : ApiStore(i)
    \/ \E i \in DOMAIN calls : ApiWrapUp(i)
    \/ \E i \in DOMAIN calls : ApiOnError(i)

SpecApi == Init /\ [][NextApi]_vars

\* Every download is started by download_latest_if_not_exists.
NextIfNotExists ==
    \/ Quiescent /\ download_latest_if_not_exists
    \/ \E i \in DOMAIN calls : DownloadFunction(i)
    \/ \E i \in DOMAIN calls : Store(i)
    \/ \E i \in DOMAIN calls : WrapUpRename(i)
    \/ \E i \in DOMAIN calls : OnError(i)
    \/ \E i \in DOMAIN calls : PostDownload(i)
    \/ \E i \in DOMAIN calls : Crash(i)
    \/ Quiescent /\ PullFtpBegin
    \/ PullFtpFile
    \/ PullFtpRaise
    \/ Quiescent /\ PullHttp

SpecIfNotExists == Init /\ [][NextIfNotExists]_vars

\* download(), the pull over HTTP, a client opening an id that is in the directory,
\* and clear_datasource_directory, one after the other.
NextStore ==
    \/ Quiescent /\ Download
    \/ \E i \in DOMAIN calls : DownloadFunction(i)
    \/ \E i \in DOMAIN calls : Store(i)
    \/ \E i \in DOMAIN calls : WrapUpRename(i)
    \/ \E i \in DOMAIN calls : OnError(i)
    \/ \E i \in DOMAIN calls : PostDownload(i)
    \/ \E i \in DOMAIN calls : Crash(i)
    \/ Quiescent /\ PullHttp
    \/ \E i \in DOMAIN calls : Quiescent /\ OpenColliding(i)
    \/ Quiescent /\ clear_datasource_directory

SpecStore == Init /\ [][NextStore]_vars

\* download() called by several tasks at once: their steps interleave.
NextConcurrent ==
    \/ Download
    \/ \E i \in DOMAIN calls : DownloadFunction(i)
    \/ \E i \in DOMAIN calls : Store(i)
    \/ \E i \in DOMAIN calls : WrapUpRename(i)
    \/ \E i \in DOMAIN calls : OnError(i)
    \/ \E i \in DOMAIN calls : PostDownload(i)

SpecConcurrent == Init /\ [][NextConcurrent]_vars

\* The single-file downloads of the downloader module.
NextFetch ==
    \/ download_file
    \/ read_text_file_ftp
    \/ RequestsHead
    \/ DownloadFileHttp
    \/ FtpAttempt

SpecFetch == Init /\ [][NextFetch]_vars

\* The mirror of a remote FTP directory, called repeatedly.
NextMirror ==
    \/ MirrorCall
    \/ MirrorDir
    \/ MirrorFile
    \/ MirrorReturn
    \/ Vanish

SpecMirror == Init /\ [][NextMirror]_vars

\* download(), and a client calling wrap_up() or on_error() on an instance that
\* download() has left.
NextFinish ==
    \/ Quiescent /\ Download
    \/ \E i \in DOMAIN calls : DownloadFunction(i)
    \/ \E i \in DOMAIN calls : Store(i)
    \/ \E i \in DOMAIN calls : WrapUpRename(i)
    \/ \E i \in DOMAIN calls : OnError(i)
    \/ \E i \in DOMAIN calls : PostDownload(i)
    \/ \E i \in DOMAIN calls : Crash(i)
    \/ \E i \in DOMAIN calls : Quiescent /\ ClientWrapUp(i)
    \/ \E i \in DOMAIN calls : Quiescent /\ ClientOnError(i)

SpecFinish == Init /\ [][NextFinish]_vars

\* The remote directory as other deployments fill it, and the listing of it.
NextCatalog ==
    \/ RemotePublish
    \/ RemoteDamage
    \/ ListRemote

SpecCatalog == Init /\ [][NextCatalog]_vars

\* download(), and the push of the data source to the remote server.
NextPush ==
    \/ Quiescent /\ Download
    \/ \E i \in DOMAIN calls : DownloadFunction(i)
    \/ \E i \in DOMAIN calls : Store(i)
    \/ \E i \in DOMAIN calls : WrapUpRename(i)
    \/ \E i \in DOMAIN calls : OnError(i)
    \/ \E i \in DOMAIN calls : PostDownload(i)
    \/ Quiescent /\ PushToRemote

SpecPush == Init /\ [][NextPush]_vars

\* The versions made from strings, numbers and dates, and their comparisons.
NextVersion ==
    \/ MakeVersion
    \/ Compare

SpecVersion == Init /\ [][NextVersion]_vars

\* The files of one instance, written by its download and then looked up.
NextLookup ==
    \/ TreeWrite
    \/ get_file
    \/ get_directory
    \/ get_file_from_directory

SpecLookup == Init /\ [][NextLookup]_vars

\* check_remote_files on its own.
NextAvailable ==
    \/ check_remote_files
    \/ CheckNextUrl

SpecAvailable == Init /\ [][NextAvailable]_vars

\* A ParserSet that is filled, narrowed by select and then used for one batch.
NextParserSet ==
    \/ add
    \/ select
    \/ MergeOrCreate
    \/ run_and_merge_sequential

SpecParserSet == Init /\ [][NextParserSet]_vars

\* latest_local_instance of one task while other tasks download and clear.
NextReader ==
    \/ Download
    \/ \E i \in DOMAIN calls : DownloadFunction(i)
    \/ \E i \in DOMAIN calls : Store(i)
    \/ \E i \in DOMAIN calls : WrapUpRename(i)
    \/ \E i \in DOMAIN calls : OnError(i)
    \/ \E i \in DOMAIN calls : PostDownload(i)
    \/ clear_datasource_directory
    \/ ReaderList
    \/ ReaderNext

SpecReader == Init /\ [][NextReader]_vars

\* The single-file downloads, called directly or through download_file_to_dir.
NextToDir ==
    \/ download_file_to_dir
    \/ NextFetch

SpecToDir == Init /\ [][NextToDir]_vars

\* download() of a SingleVersionRemoteDataSource, one call after the other.
NextSingleVersion ==
    \/ Quiescent /\ Download
    \/ \E i \in DOMAIN calls : DownloadFunction(i)
    \/ \E i \in DOMAIN calls : NotDownloadable(i)
    \/ \E i \in DOMAIN calls : Store(i)
    \/ \E i \in DOMAIN calls : WrapUpRename(i)
    \/ \E i \in DOMAIN calls : OnError(i)
    \/ \E i \in DOMAIN calls : PostDownload(i)

SpecSingleVersion == Init /\ [][NextSingleVersion]_vars

\* ------------------------------------------------------------------ claims

\* prepare_download of call i made process_<i>.
Prepared(i) == calls[i].orig # "prepare_download"

\* The directory forms of uuid that exist.
Forms(uuid) ==
    {n \in {ProcessInstanceDir(uuid), InstanceDir(uuid), ErrorInstancePath(uuid)} : n \in DOMAIN fs}

\* C1: for every instance whose Building directory prepare_download has made, at every
\* point of download() exactly one of process_<id>, <id>, error_<id> exists.
C1_ExactlyOneForm ==
    \A i \in DOMAIN calls : Prepared(i) => Cardinality(Forms(i)) = 1

\* One call ended Ready and another Failed.
C1_Witness ==
    \E i, j \in DOMAIN calls :
        /\ calls[i].pc = "returned" /\ Forms(i) = {InstanceDir(i)}
        /\ calls[j].pc = "raised" /\ Forms(j) = {ErrorInstancePath(j)}

\* C2: when an exception of prepare_download, the download function or wrap_up has
\* reached the caller, the instance is Failed (error_<id> alone exists) and the
\* exception is the one that step raised.
C2_RaisedIsFailedWithOriginal ==
    \A i \in DOMAIN calls :
        calls[i].pc = "raised" =>
            /\ Forms(i) = {ErrorInstancePath(i)}
            /\ calls[i].exc = calls[i].orig

\* C3: the rename Building -> Ready happens only with metadata.json written in the
\* Building directory, and an instance whose store() failed is never Ready.
C3_ManifestBeforeRename ==
    [][\A i \in DOMAIN calls' :
         /\ (InstanceDir(i) \notin DOMAIN fs /\ InstanceDir(i) \in DOMAIN fs') =>
                /\ ProcessInstanceDir(i) \in DOMAIN fs
                /\ fs[ProcessInstanceDir(i)].meta =
                       <<Manifest(i, calls'[i].download_arguments, calls'[i].instance_created)>>
                /\ fs'[InstanceDir(i)].meta = fs[ProcessInstanceDir(i)].meta
         /\ calls'[i].orig = "store" => InstanceDir(i) \notin DOMAIN fs'
      ]_vars

\* One call's store() failed and it ended Failed; another call was renamed to Ready.
C3_Witness ==
    \E i, j \in DOMAIN calls :
        /\ calls[i].orig = "store" /\ calls[i].pc = "raised" /\ ErrorInstancePath(i) \in DOMAIN fs
        /\ calls[j].pc = "returned" /\ InstanceDir(j) \in DOMAIN fs

\* C4: every entry instances_local takes for a Ready instance holds a metadata.json.
C4_ReadyHasManifest ==
    \A n \in DOMAIN fs : IsLocalInstanceName(n) => Readable(fs[n])

\* The result of latest_local_instance is an instance of a Ready directory.
ReturnsReady(r) ==
    r.latest # <<>> =>
        /\ InstanceDir(r.latest[1].uuid) \in DOMAIN fs
        /\ \A i \in DOMAIN calls :
               (calls[i].pc = "crashed" \/ Forms(i) # {InstanceDir(i)}) => r.latest[1].uuid # i

\* C5: instances_local yields no Building, Failed or hidden entry, and
\* latest_local_instance returns no instance whose directory is not Ready; an
\* instance whose download() was killed before wrap_up is never returned.
C5_OnlyReadyReturned ==
    \A listing \in list_instances :
        /\ \A k \in DOMAIN instances_local(listing) :
               LET n == instances_local(listing)[k]
               IN /\ n = InstanceDir(n.stem)
                  /\ n # HiddenName
        /\ \A argument_check \in BOOLEAN :
               \A args \in (IF argument_check THEN ArgChoices ELSE {NoArgs}) :
                   ReturnsReady(latest_local_instance(listing, argument_check, args))

\* A killed download has left process_<i>, a Failed and a hidden entry exist, and
\* latest_local_instance returns a Ready instance.
C5_Witness ==
    /\ \E i \in DOMAIN calls : calls[i].pc = "crashed" /\ ProcessInstanceDir(i) \in DOMAIN fs
    /\ HiddenName \in DOMAIN fs
    /\ \E listing \in list_instances :
           latest_local_instance(listing, FALSE, NoArgs).latest # <<>>

\* C6: once <id> or error_<id> exists and process_<id> does not, no step of
\* prepare_download, store, wrap_up or on_error makes process_<id> again.
C6_NeverBackToBuilding ==
    [][\A i \in DOMAIN calls :
         (Forms(i) # {} /\ ProcessInstanceDir(i) \notin DOMAIN fs) =>
             ProcessInstanceDir(i) \notin DOMAIN fs'
      ]_vars

\* Two download_arguments are equal, lists being compared as sets.
SetEqualArgs(A, B) ==
    /\ DOMAIN A = DOMAIN B
    /\ \A k \in DOMAIN A :
           IF A[k].kind = "list" /\ B[k].kind = "list"
           THEN Range(A[k].seq) = Range(B[k].seq)
           ELSE A[k] = B[k]

\* The manifests of the Ready instances.
ReadyManifests ==
    {fs[n].meta[1] : n \in {m \in DOMAIN fs : m.prefix = "" /\ fs[m].kind = "dir" /\ fs[m].meta # <<>>}}

\* The time a manifest's instance_created stands for.
TimeOf(m) == m.instance_created.sec * SubSec + m.instance_created.frac

\* r is the latest of the manifests M: None when M is empty, else one of the greatest
\* instance_created.
IsLatestOf(r, M) ==
    /\ ~r.raised
    /\ r.latest = <<>> <=> M = {}
    /\ r.latest # <<>> =>
           \E m \in M : /\ m.uuid = r.latest[1].uuid
                        /\ \A o \in M : TimeOf(o) <= TimeOf(m)

\* C7: latest_local_instance(argument_check=True, **A) returns a Ready instance of the
\* greatest instance_created among those whose download_arguments equal A (lists as
\* sets), and None exactly when there is none.
C7_LatestMatching ==
    \A listing \in list_instances : \A args \in ArgChoices :
        IsLatestOf(latest_local_instance(listing, TRUE, args),
                   {m \in ReadyManifests : SetEqualArgs(m.download_arguments, args)})

\* C8: for A and B equal up to the order of their lists, latest_local_instance(**A)
\* and latest_local_instance(**B) give the same result over the same directory.
C8_SameForEqualArgs ==
    \A A, B \in ArgChoices :
        (A # B /\ SetEqualArgs(A, B)) =>
            \A listing \in list_instances :
                latest_local_instance(listing, TRUE, A) = latest_local_instance(listing, TRUE, B)

\* A Ready instance stored with taxids [10090, 9606] is returned for taxids [9606, 10090].
C8_Witness ==
    \E listing \in list_instances :
        LET r == latest_local_instance(listing, TRUE, TaxidsAB)
        IN /\ r.latest # <<>>
           /\ r.latest[1].download_arguments = TaxidsBA

\* C9: latest_local_instance(argument_check=False) returns a Ready instance of the
\* greatest instance_created, whatever the listing order and the arguments.
C9_LatestOfAll ==
    \A listing \in list_instances : \A args \in ArgChoices :
        IsLatestOf(latest_local_instance(listing, FALSE, args), ReadyManifests)

\* C10: download_latest_if_not_exists begins a download only when no Ready instance
\* has the download arguments, and changes nothing otherwise; no download follows a
\* returned one with the same arguments.
C10_DownloadOnlyIfAbsent ==
    [][/\ (Quiescent /\ pull' = pull) =>
              \/ fs' = fs /\ calls' = calls
              \/ /\ Len(calls') = Len(calls) + 1
                 /\ \A m \in ReadyManifests :
                        ~SetEqualArgs(m.download_arguments, calls'[Len(calls')].download_arguments)
       /\ \A i, j \in DOMAIN calls' :
              (i < j /\ calls'[i].pc = "returned") =>
                  ~SetEqualArgs(calls'[i].download_arguments, calls'[j].download_arguments)
      ]_vars

\* A first download has returned its Ready instance and a second one, with other
\* arguments, has begun.
C10_Witness ==
    \E i, j \in DOMAIN calls :
        i < j /\ calls[i].pc = "returned" /\ InstanceDir(i) \in DOMAIN fs

\* The FTP attempts of the call, and those of them that raised EOFError.
FtpAttempts == {k \in DOMAIN fetch.log : fetch.log[k].verb = "RETR"}

EofFailures == {k \in FtpAttempts : fetch.log[k].outcome = "EOFError"}

\* C11: _download_file_ftp and _read_text_file_ftp make at most 3 attempts; an attempt
\* that succeeds after only EOFError failures is the last one and the call returns the
\* local path (the content); after 3 EOFError failures, and only then, the call raises
\* ValueError naming the remote path.
C11_ThreeAttempts ==
    /\ Cardinality(FtpAttempts) <= 3
    /\ \A k \in FtpAttempts :
           fetch.log[k].outcome = "ok" =>
               /\ k = Len(fetch.log)
               /\ \A j \in FtpAttempts : j < k => fetch.log[j].outcome = "EOFError"
               /\ fetch.pc = "idle"
               /\ fetch.result = ReturnedResult(IF fetch.fn = "_read_text_file_ftp"
                                                THEN "content" ELSE "path")
    /\ Cardinality(EofFailures) = 3 <=>
           (FtpAttempts # {} /\ fetch.pc = "idle" /\ fetch.result = RaisedResult("ValueError", "path"))

\* EOFError twice, then the third attempt succeeds and the path is returned.
C11_Witness ==
    /\ fetch.fn = "download_file"
    /\ Cardinality(EofFailures) = 2
    /\ Cardinality(FtpAttempts) = 3
    /\ fetch.result = ReturnedResult("path")

\* C12: a GET answered with a status other than 200 is the only GET of the call and
\* the call raises with that status code; an FTP attempt that fails with something
\* other than EOFError is the last attempt and its error leaves the call; a URL that is
\* neither http(s) nor ftp raises with no request sent.
C12_NoRetryOfDefinitive ==
    /\ \A k \in DOMAIN fetch.log :
           (fetch.log[k].verb = "GET" /\ fetch.log[k].outcome # "200") =>
               /\ k = Len(fetch.log)
               /\ Cardinality({j \in DOMAIN fetch.log : fetch.log[j].verb = "GET"}) = 1
               /\ fetch.pc = "idle"
               /\ fetch.result = RaisedResult("ValueError", fetch.log[k].outcome)
    /\ \A k \in FtpAttempts :
           fetch.log[k].outcome \notin {"ok", "EOFError"} =>
               /\ k = Len(fetch.log)
               /\ fetch.pc = "idle"
               /\ fetch.result = RaisedResult(fetch.log[k].outcome, "")
    /\ (fetch.fn = "download_file" /\ fetch.scheme \notin {"http", "https", "ftp"}) =>
           /\ fetch.log = <<>>
           /\ fetch.pc = "idle"
           /\ fetch.result.kind = "raised"

\* A GET was answered 404 and, in an earlier or later call, nothing of this kind; here:
\* the call ended with ValueError carrying 404 after one HEAD and one GET.
C12_Witness ==
    /\ Len(fetch.log) = 2
    /\ fetch.log[2] = Request("GET", "404")
    /\ fetch.result = RaisedResult("ValueError", "404")

\* The directories whose files the walk is to download: no dir_blacklist element in
\* the path and, when a dir_whitelist is given, some element of it in the path.
ShouldMirror(dirname, p) ==
    /\ ~AnyOccurs(p.dir_blacklist, dirname)
    /\ p.dir_whitelist = {} \/ AnyOccurs(p.dir_whitelist, dirname)

\* C13: a call that has returned has entered (and downloaded the files of) exactly the
\* directories that match no dir_blacklist element and, if a dir_whitelist is given,
\* match one of its elements.
C13_BlacklistThenWhitelist ==
    mirror.result = "returned" =>
        \A k \in DOMAIN WalkOrder :
            WalkOrder[k] \in mirror.entered <=> ShouldMirror(WalkOrder[k], mirror.params)

\* C14: the list a call returns holds exactly the local files this call downloaded.
C14_ReturnsDownloadedOnly ==
    mirror.result = "returned" => mirror.local_files = mirror.downloaded

\* C15: a file that has disappeared between the listing and its download never makes
\* the call raise, with overwrite true or false.
C15_VanishedFileSkipped ==
    mirror.missed # {} => mirror.result # "raised"

\* C16: when a call without overwrite follows a call that returned, on a remote tree
\* that did not change, every local file of the first call keeps its contents, the
\* second call downloads none of them, and when it returns the local files are those
\* the first call left.
C16_SecondCallIdempotent ==
    (mirror.snap.ok /\ ~mirror.params.overwrite /\ mirror.remote = AllRemoteFiles) =>
        /\ \A x \in DOMAIN mirror.snap.local :
               /\ x \in DOMAIN mirror.local
               /\ mirror.local[x] = mirror.snap.local[x]
               /\ x \notin mirror.downloaded
        /\ mirror.result = "returned" => mirror.local = mirror.snap.local

\* The second call has returned after a first call that downloaded files.
C16_Witness ==
    /\ mirror.snap.ok
    /\ ~mirror.params.overwrite
    /\ mirror.remote = AllRemoteFiles
    /\ mirror.n = 2
    /\ mirror.result = "returned"
    /\ Cardinality(DOMAIN mirror.snap.local) >= 3
    /\ mirror.local_files # {}

\* The step is call number n' of the client, of operation op.
ClientStep(op) == client'.n # client.n /\ client'.op = op

\* C17: prepare_download on an instance whose id has a directory in the data source
\* directory raises a directory-exists error and leaves the directory as it is.
C17_CollisionRefused ==
    [][\A i \in DOMAIN calls :
         (ClientStep("prepare_download") /\ client'.uuid = i /\ FormsIn(fs, i) # {}) =>
             /\ client'.raised = "FileExistsError"
             /\ fs' = fs
      ]_vars

\* The three directory names of uuid are in f and g alike, with the same contents.
SameDirectories(f, g, uuid) ==
    \A n \in {ProcessInstanceDir(uuid), InstanceDir(uuid), ErrorInstancePath(uuid)} :
        /\ n \in DOMAIN f <=> n \in DOMAIN g
        /\ n \in DOMAIN f => f[n] = g[n]

\* C18: download() calls that run at the same time have distinct Building directories,
\* a call between prepare_download and the end of wrap_up has its own process_<id>, and
\* a step of one call (its renames included) leaves the directories of every other
\* call as they are.
C18_ConcurrentCallsApart ==
    [][\A i \in DOMAIN calls' :
         /\ \A j \in DOMAIN calls' : i # j => ProcessInstanceDir(i) # ProcessInstanceDir(j)
         /\ calls'[i].pc \in {"download_function", "store", "rename"} =>
                ProcessInstanceDir(i) \in DOMAIN fs'
         /\ (i \notin DOMAIN calls \/ calls'[i] # calls[i]) =>
                \A j \in DOMAIN calls' : j # i => SameDirectories(fs, fs', j)
      ]_vars

\* The call that began second is Ready while the one that began first is about to be
\* marked Failed, its Building directory still in place.
C18_Witness ==
    \E i, j \in DOMAIN calls :
        /\ j < i
        /\ calls[i].pc = "post_download" /\ InstanceDir(i) \in DOMAIN fs
        /\ calls[j].pc = "on_error" /\ ProcessInstanceDir(j) \in DOMAIN fs

\* C19: on_error turns process_<id> into error_<id> with all it holds, and no step
\* other than clear_datasource_directory removes or changes an error_<id> directory.
C19_FailedKept ==
    [][\A i \in DOMAIN calls :
         /\ (calls[i].pc = "on_error" /\ calls'[i].pc # "on_error"
                 /\ ProcessInstanceDir(i) \in DOMAIN fs /\ ErrorInstancePath(i) \notin DOMAIN fs) =>
                /\ ProcessInstanceDir(i) \notin DOMAIN fs'
                /\ ErrorInstancePath(i) \in DOMAIN fs'
                /\ fs'[ErrorInstancePath(i)] = fs[ProcessInstanceDir(i)]
         /\ (ErrorInstancePath(i) \in DOMAIN fs /\ ~ClientStep("clear")) =>
                /\ ErrorInstancePath(i) \in DOMAIN fs'
                /\ fs'[ErrorInstancePath(i)] = fs[ErrorInstancePath(i)]
      ]_vars

\* A download failed with partial files, which error_<id> still holds after a later
\* download has returned.
C19_Witness ==
    \E i, j \in DOMAIN calls :
        /\ i < j
        /\ calls[i].pc = "raised"
        /\ ErrorInstancePath(i) \in DOMAIN fs /\ fs[ErrorInstancePath(i)].payload
        /\ calls[j].pc = "returned"

\* C20: after clear_datasource_directory only hidden entries are in the data source
\* directory, and the hidden entries are as they were.
C20_ClearLeavesHiddenOnly ==
    [][ClientStep("clear") =>
           /\ \A n \in DOMAIN fs' : IsHidden(n)
           /\ \A n \in DOMAIN fs : IsHidden(n) => (n \in DOMAIN fs' /\ fs'[n] = fs[n])
      ]_vars

\* C21: wrap_up or on_error on an instance without a process_<id> directory raises
\* and leaves the data source directory, its Ready and Failed directories included,
\* as it was.
C21_FinishNeedsBuilding ==
    [][\A op \in {"wrap_up", "on_error"} :
         (ClientStep(op) /\ ProcessInstanceDir(client'.uuid) \notin DOMAIN fs)
            => (client'.raised # "None" /\ fs' = fs)]_vars

\* on_error has raised on a Ready instance while a Failed directory stands beside it.
C21_Witness ==
    /\ client.op = "on_error"
    /\ client.raised = "FileNotFoundError"
    /\ InstanceDir(client.uuid) \in DOMAIN fs
    /\ \E n \in DOMAIN fs : n.prefix = "error_"

\* A name that starts with neither '.' nor 'error_'.
NameEligible(n) == n.prefix # "." /\ n.prefix # "error_"

\* A step that is a call of list_remote_instances over HTTP or FTP.
ListStep == remote'.n # remote.n /\ remote'.op = "list" /\ remote'.protocol \in {"http", "ftp"}

\* C22: over HTTP and over FTP alike, when the listing succeeds and every entry
\* whose name starts with neither '.' nor 'error_' is a directory with a good
\* metadata.json, list_remote_instances returns exactly one descriptor for each of
\* these entries and none for any other.
C22_OneDescriptorPerEntry ==
    [][(/\ ListStep
        /\ remote'.listed
        /\ \A n \in DOMAIN remote.entries :
             NameEligible(n) => remote.entries[n] = RemoteEntry("dir", "ok"))
       => (/\ remote'.raised = "None"
           /\ Len(remote'.instances) = Cardinality({n \in DOMAIN remote.entries : NameEligible(n)})
           /\ {remote'.instances[k].uuid : k \in DOMAIN remote'.instances}
                = {n.stem : n \in {m \in DOMAIN remote.entries : NameEligible(m)}})]_vars

\* C23: when the listing request fails, or a directory whose name starts with
\* neither '.' nor 'error_' has a missing or unparsable metadata.json,
\* list_remote_instances raises and returns no descriptor at all.
C23_NoPartialListing ==
    [][(/\ ListStep
        /\ \/ ~remote'.listed
           \/ \E n \in DOMAIN remote.entries :
                NameEligible(n) /\ remote.entries[n].kind = "dir" /\ remote.entries[n].meta # "ok")
       => (remote'.raised # "None" /\ remote'.instances = <<>>)]_vars

\* A listing that went through has met the unparsable metadata.json of instance 102.
C23_Witness ==
    /\ remote.op = "list"
    /\ remote.listed
    /\ remote.raised = "JSONDecodeError"

\* C26: after a push over FTP that returned, every local Ready instance is in the
\* remote directory.
C26_PushedReadyOnRemote ==
    [][(/\ remote'.n # remote.n
        /\ remote'.op = "push"
        /\ remote'.protocol = "ftp"
        /\ remote'.raised = "None")
       => \A n \in DOMAIN fs :
            (IsLocalInstanceName(n) /\ fs[n].kind = "dir") => n \in DOMAIN remote'.entries]_vars

\* The descriptors a remote listing gives for the manifests of the local Ready
\* instances, in the same order.
ListedAsRemote(listing) ==
    [k \in DOMAIN instances_local(listing) |-> FromDict(fs[instances_local(listing)[k]].meta[1])]

\* Both select the instance of the same id, or both return None.
SameSelection(a, b) ==
    /\ ~a.raised
    /\ ~b.raised
    /\ (a.latest = <<>>) <=> (b.latest = <<>>)
    /\ a.latest # <<>> => a.latest[1].uuid = b.latest[1].uuid

\* C24: over the same instances (every local instance directory holding its
\* metadata.json), in the same order, with the same arguments and the same flag,
\* latest_local_instance and latest_remote_instance select the same id or both None.
C24_RemoteSelectsAsLocal ==
    \A listing \in list_instances :
        (\A k \in DOMAIN instances_local(listing) : Readable(fs[instances_local(listing)[k]]))
        => \A argument_check \in BOOLEAN, args \in ArgChoices :
              SameSelection(latest_local_instance(listing, argument_check, args),
                            latest_of_listed(ListedAsRemote(listing), argument_check, args))

\* The directories and files a step adds to the data source directory.
Created == DOMAIN fs' \ DOMAIN fs

\* A step of pull_latest_from_remote.
PullStep == pull' # pull

\* C25: what a pull adds to the data source directory is the directory <id> of a
\* remote instance, never a process_<id> or error_<id> directory nor a plain file,
\* and it turns no entry that was there into something else.
C25_PullMirrorsInstanceDir ==
    [][PullStep =>
         /\ \A n \in Created :
              /\ n \in {InstanceDir(u) : u \in RemoteUuids}
              /\ fs'[n].kind = "dir"
         /\ \A n \in DOMAIN fs : fs'[n].kind = fs[n].kind]_vars

\* The timestamp whose directory name s is, if it is one.
TimestampOf(s) == {t \in Timestamps : dirname_from_datetime(t) = s}

\* C27: a string that is the directory name of a timestamp becomes that timestamp;
\* otherwise a string with a leading digit and exactly three '-'-separated fields
\* becomes a date; otherwise a string with a leading digit becomes an ordered
\* version; any other string becomes an ordered value too (held as a LooseVersion);
\* an integer becomes what its string form becomes.
C27_ClassifiedInOrder ==
    /\ version.input.type = "str" =>
         LET s == version.input.s
         IN IF TimestampOf(s) # {}
            THEN version.made.kind = "datetime" /\ version.made.t \in TimestampOf(s)
            ELSE IF LeadingDigit(s) /\ Len(Split(s, "-")) = 3
                 THEN version.made.kind = "date"
                 ELSE version.made.kind = "LooseVersion"
    /\ version.input.type = "int" =>
         version.made \in DataSourceVersionOfStr(NatStr(version.input.n))

\* C28: a comparison of two versions of different kinds tells that they cannot be
\* compared: it returns neither True nor False nor None.
C28_MixedKindsSignalled ==
    (version.op # "" /\ version.made.kind # version.other.kind)
        => version.result \notin {"True", "False", "None"}

\* C29: the directory name of a timestamp decodes to that timestamp, whatever its
\* microsecond, and a DataSourceVersion made from the directory name of a timestamp
\* version holds the same timestamp.
C29_DirnameRoundTrip ==
    version.input.type = "datetime" =>
        /\ \A r \in datetime_from_dirname(dirname_from_datetime(version.input.t)) :
             r.raised = "None" /\ r.t = version.input.t
        /\ \A again \in DataSourceVersionOfStr(version.made.dir_repr) :
             again.kind = "datetime" /\ again.t = version.made.t /\ again.t = version.input.t

\* A version has been made of a timestamp with a sub-second part.
C29_Witness ==
    /\ version.input.type = "datetime"
    /\ version.input.t.microsecond # 0
    /\ version.made.kind = "datetime"
    /\ Len(version.made.dir_repr) > 0

\* The candidates of the last lookup: the files of that name, the directories of
\* that name, the files of that name lying in a directory of that name.
Candidates ==
    IF lookup.op = "get_file"
    THEN {n.path : n \in {m \in lookup.tree : m.kind = "file" /\ m.path[Len(m.path)] = lookup.filename}}
    ELSE IF lookup.op = "get_directory"
    THEN {n.path : n \in {m \in lookup.tree :
                            m.kind = "dir" /\ m.path[Len(m.path)] = lookup.directory_name}}
    ELSE {n.path : n \in {m \in lookup.tree :
                            /\ m.kind = "file"
                            /\ Len(m.path) >= 2
                            /\ m.path[Len(m.path)] = lookup.filename
                            /\ m.path[Len(m.path) - 1] = lookup.directory_name}}

\* C30: get_file, get_directory and get_file_from_directory return the candidate
\* when there is exactly one, raise when there are several, and return None
\* without raising when there is none.
C30_SingleMatchOrError ==
    lookup.op # "" =>
        /\ Cardinality(Candidates) = 1 => (/\ lookup.raised = "None"
                                           /\ lookup.result # <<>>
                                           /\ lookup.result[1] \in Candidates)
        /\ Cardinality(Candidates) > 1 => lookup.raised # "None"
        /\ Candidates = {} => (lookup.raised = "None" /\ lookup.result = <<>>)

\* get_file_from_directory has met two files of the name in two directories of the name.
C30_Witness ==
    /\ lookup.op = "get_file_from_directory"
    /\ lookup.raised = "ValueError"
    /\ Cardinality(Candidates) = 2

\* C31: the metadata.json of every Ready instance that wrap_up produced holds the keys
\* uuid, instance_created, download_arguments, version and finished.
C31_ManifestKeys ==
    \A i \in DOMAIN calls :
        (InstanceDir(i) \in DOMAIN fs /\ fs[InstanceDir(i)].meta # <<>>)
            => {"uuid", "instance_created", "download_arguments", "version", "finished"}
                   \subseteq DOMAIN fs[InstanceDir(i)].meta[1]

\* C32: when check_remote_files has returned, every URL of remote_files is in exactly
\* one of 'found' and 'not_found'.
C32_EveryUrlReported ==
    avail.pc = "returned" =>
        \A k \in DOMAIN avail.remote_files :
            Cardinality({j \in DOMAIN avail.found : avail.found[j] = k})
                + Cardinality({j \in DOMAIN avail.not_found : avail.not_found[j] = k}) = 1

\* The parsers added so far that match one of the entries of the selection.
Selected == {p \in DOMAIN pset.added : \E k \in DOMAIN pset.selection : Matches(pset.added[p], pset.selection[k])}

\* No value occurs twice in the sequence.
NoTwice(seq) == \A i, j \in DOMAIN seq : seq[i] = seq[j] => i = j

\* C33: once select was called, after any further add or select, parsers and
\* _parser_stash are disjoint, hold no parser twice, together hold exactly the parsers
\* added, and parsers holds exactly the added parsers that match the selection.
C33_SelectPartitions ==
    pset.selects > 0 =>
        /\ Range(pset.parsers) \cap Range(pset.stash) = {}
        /\ NoTwice(pset.parsers) /\ NoTwice(pset.stash)
        /\ Range(pset.parsers) \cup Range(pset.stash) = DOMAIN pset.added
        /\ Range(pset.parsers) = Selected

\* The positions of the log where a set of the kind is written.
Written(kind) == {k \in DOMAIN pset.log : pset.log[k].kind = kind}

\* Every NodeSet of every active parser is written somewhere in the log.
AllNodeSetsWritten ==
    \A p \in Range(pset.parsers) : \A s \in Range(NodeSetsOf(pset.added[p])) :
        \E k \in Written("nodes") : pset.log[k].parser = p /\ pset.log[k].set = s

\* C34: merge and create write every NodeSet of every parser before the first
\* RelationshipSet; run_and_merge_sequential does the same, and each run of a parser is
\* followed by the reset of that parser before the next parser runs.
C34_NodesBeforeRelationships ==
    pset.op # "" =>
        /\ AllNodeSetsWritten
        /\ \A n \in Written("nodes"), r \in Written("relationships") : n < r
        /\ pset.op = "run_and_merge_sequential" =>
               /\ \A k \in Written("run") :
                      \E j \in Written("reset") :
                          /\ k < j /\ pset.log[j].parser = pset.log[k].parser
                          /\ \A i \in Written("run") : ~(k < i /\ i < j)
               /\ \A k \in Written("nodes") \cup Written("relationships") :
                      \E i \in Written("run"), j \in Written("reset") :
                          /\ i < k /\ k < j
                          /\ pset.log[i].parser = pset.log[k].parser
                          /\ pset.log[j].parser = pset.log[k].parser

\* A batch over two parsers or more that wrote NodeSets and RelationshipSets, and a
\* sequential run that did.
C34_Witness ==
    /\ pset.op = "run_and_merge_sequential"
    /\ Cardinality(Range(pset.parsers)) >= 2
    /\ Written("nodes") # {} /\ Written("relationships") # {}
    /\ \E k \in Written("relationships") : \E n \in Written("nodes") :
           pset.log[n].parser > pset.log[k].parser

\* The positions of the log of the call where a request of the verb was sent.
Sent(verb) == {k \in DOMAIN fetch.log : fetch.log[k].verb = verb}

\* The HEAD request was answered 302 with a Location that starts with ftp://.
RedirectedToFtp ==
    /\ \E k \in Sent("HEAD") : fetch.log[k].outcome = "302"
    /\ fetch.location = "ftp"

C39_FailureLeavesNoFile ==
    (/\ fetch.fn \in {"download_file", "download_file_to_dir"}
     /\ fetch.pc = "idle"
     /\ fetch.result.kind = "raised"
     /\ fetch.before = "absent")
        => fetch.local = "absent"

\* C36: for every Ready instance wrap_up wrote, get_instance_by_uuid returns an instance
\* with the uuid, download_arguments and version that were stored, and with an
\* instance_created that is a timestamp equal to the creation time.
C36_ReadBackEqualsStored ==
    \A i \in DOMAIN calls :
        (InstanceDir(i) \in DOMAIN fs /\ get_instance_by_uuid(fs, InstanceDir(i)) = "instance") =>
            LET inst == ReadInstance(fs[InstanceDir(i)])
            IN /\ inst.uuid = i
               /\ inst.download_arguments = JsonArgs(calls[i].download_arguments)
               /\ ReadVersion(fs[InstanceDir(i)]) = "None"
               /\ inst.instance_created.kind = "datetime"
               /\ inst.instance_created.sec * SubSec + inst.instance_created.frac
                      = calls[i].instance_created

\* Call i has ended: download() returned the instance or an exception left it.
Ended(i) == calls[i].pc \in {"returned", "raised"}

\* C37: a download() that ends, returning or raising, leaves no process_<id>; when it
\* returns its instance is Ready with its manifest; the call ends by the one
\* post_download step, which comes after the last change of the directory, and an
\* ended call does nothing more.
C37_EndsWithoutBuilding ==
    [][\A i \in DOMAIN calls :
           /\ (~Ended(i) /\ calls'[i].pc \in {"returned", "raised"}) =>
                  /\ calls[i].pc = "post_download"
                  /\ fs' = fs
                  /\ ProcessInstanceDir(i) \notin DOMAIN fs'
                  /\ calls'[i].pc = "returned" =>
                         /\ InstanceDir(i) \in DOMAIN fs'
                         /\ fs'[InstanceDir(i)].meta
                                = <<Manifest(i, calls[i].download_arguments, calls[i].instance_created)>>
           /\ Ended(i) =>
                  /\ calls'[i] = calls[i]
                  /\ ProcessInstanceDir(i) \notin DOMAIN fs'
                  /\ calls[i].pc = "returned" =>
                         (InstanceDir(i) \in DOMAIN fs' /\ fs'[InstanceDir(i)] = fs[InstanceDir(i)])]_vars

\* One download() has returned and another has raised after on_error renamed its
\* directory.
C37_Witness ==
    \E i, j \in DOMAIN calls :
        /\ calls[i].pc = "returned" /\ InstanceDir(i) \in DOMAIN fs
        /\ calls[j].pc = "raised" /\ ErrorInstancePath(j) \in DOMAIN fs

\* C38: an instance of a SingleVersionRemoteDataSource is Ready only if download_function
\* ran to completion for it: a call whose version was not downloadable leaves no Ready
\* instance.
C38_ReadyOnlyIfDownloaded ==
    \A i \in DOMAIN calls :
        InstanceDir(i) \in DOMAIN fs => fs[InstanceDir(i)].payload

\* C40: a latest_local_instance call that runs while other tasks download, fail and
\* clear does not raise, and returns None or an instance it read from a Ready directory
\* with its manifest.
C40_ReaderNeverRaises ==
    reader.pc = "done" =>
        /\ ~reader.acc.raised
        /\ reader.acc.latest # <<>> => reader.acc.latest[1].uuid \in reader.seen

====
